---- MODULE Spec2Model ----
\* Multi-tenant identity and credential core of unified-backend:
\* AuthService (register, login, refresh, logout, deleteAccount, appleSignIn),
\* the tenant scope and the tenant-resolution middleware.
EXTENDS Integers, Sequences, FiniteSets, TLC

\* ------------------------------------------------------------------ bounds
MaxUsers == 2
MaxTokens == 3
MaxTime == 2
\* rows of the subscriptions, reports and blocks tables taken together
MaxRows == 3
\* entries of the apps file
MaxApps == 2

\* -------------------------------------------------------- program constants
\* len(req.Password) < 8
MinPasswordLen == 8
\* JWT_REFRESH_EXPIRY (168h), in clock ticks of the model: one tick is one
\* refresh lifetime
JWTRefreshExpiry == 1
\* the lifetime of the key cache (24 * time.Hour), in clock ticks of the
\* verifier: one tick is one cache lifetime
JWKSTTL == 1

\* ------------------------------------------------------------------ inputs
Procs == {1, 2}
\* tenants of the loaded registry (apps.json)
Tenants == {"t1", "t2"}
Emails == {"", "a@x.com"}
\* a password is its sequence of Unicode code points
PwEmpty == << >>
PwShort == <<97, 97, 97, 97, 97, 97, 97>>
PwGood == <<108, 111, 110, 103, 101, 110, 117, 49>>
PwMulti == <<233, 233, 233, 233>>
\* the passwords of the requests; AllPasswords adds a non-ASCII one
Passwords == {PwEmpty, PwShort, PwGood}
AllPasswords == Passwords \cup {PwMulti}

\* Apple identity assertions: the provider's issuer, the key identifiers of
\* its published key set, the subjects it signs for
AppleIssuer == "https://appleid.apple.com"
AppleKids == {"k1"}
AppleSubs == {"s1"}

Nil == "<nil>"

\* users, tokens: the rows of the users and refresh_tokens tables
\* now: the clock; nextUser, nextRaw: the next fresh uuid / random token
\* pc, call: the position and the request of each request-handling goroutine
\* usedOK: the raw refresh tokens a Refresh call has exchanged successfully
\* http: one request on its way through the middleware chain
\* cfg: the admin settings of the loaded configuration
\* jwks: the identity provider's key cache; vt: one VerifyToken call
\* jw: one access token between issue, transport and verification
\* subscriptions, reports, blocks: the rows of the tenant-scoped tables
\* shared, gp, served, completed: the key cache shared by concurrent
\* GetPublicKey calls, those calls, the number of key-set bodies the endpoint
\* has served and the key sets whose fetch ran to its end
\* buffer, batches: the log handler's buffer of accepted records and the
\* batches handed to the store, in order; loop: the flush loop's position
\* and the batch it holds; flushes: the flush goroutines Handle started and
\* the batches they hold; done: h.done is closed; tick: the ticker's
\* channel holds a tick; accepted: the number of records Handle accepted
VARIABLES users, tokens, now, nextUser, nextRaw, pc, call, usedOK, http,
          cfg, jwks, vt, jw, subscriptions, reports, blocks, boot,
          shared, gp, served, completed,
          buffer, batches, loop, flushes, done, tick, accepted

authVars == <<users, tokens, now, nextUser, nextRaw, pc, call, usedOK>>

\* the state outside the users and refresh_tokens tables and the calls
keyVars == <<shared, gp, served, completed>>

logVars == <<buffer, batches, loop, flushes, done, tick, accepted>>

\* the state of the background machinery: the shared key cache and the log
\* handler
bgVars == <<keyVars, logVars>>

sideVars == <<cfg, jwks, vt, jw, boot, bgVars>>

dataVars == <<subscriptions, reports, blocks>>

vars == <<users, tokens, now, nextUser, nextRaw, pc, call, usedOK, http,
          cfg, jwks, vt, jw, subscriptions, reports, blocks, boot, bgVars>>

\* ----------------------------------------------------------------- helpers
\* number of bytes of the UTF-8 encoding of one code point
Utf8Len(cp) == IF cp < 128 THEN 1 ELSE IF cp < 2048 THEN 2 ELSE IF cp < 65536 THEN 3 ELSE 4

\* Go's len() of a string: the number of bytes of its UTF-8 encoding
RECURSIVE GoLen(_)
GoLen(s) == IF s = << >> THEN 0 ELSE Utf8Len(Head(s)) + GoLen(Tail(s))

\* bcrypt.GenerateFromPassword: the stored hash is never the plaintext
\* (the leading 0 stands for the "$2a$" prefix)
BcryptHash(pw) == <<0>> \o pw

\* bcrypt.CompareHashAndPassword: the empty hash matches no password
CompareHashAndPassword(hash, pw) == hash = BcryptHash(pw)

\* hashToken: hex SHA-256 of the raw token (injective, never the raw token)
hashToken(raw) == [sha256 |-> raw]

\* a scope that forgets the tenant filter
ForTenantUnscoped(rows, appID) == rows

\* tenant.ForTenant: WHERE app_id = ?
ForTenant(rows, appID) == {r \in rows : r.appID = appID}

\* gorm soft delete: queries on models.User skip rows with deleted_at set
Live(rows) == {r \in rows : ~r.deleted}

\* uniqueIndex idx_users_app_email on (app_id, email); the index also covers
\* soft-deleted rows
EmailIndexClash(rows, appID, email) == \E r \in rows : r.appID = appID /\ r.email = email

\* the error the database driver returns for an insert that violates the
\* unique index on (app_id, email)
UniqueViolation ==
    "ERROR: duplicate key value violates unique constraint idx_users_app_email (SQLSTATE 23505)"

NoUser == [id |-> 0, appID |-> "", email |-> "", password |-> << >>, role |-> "user",
           appleUserID |-> Nil, authProvider |-> "", deleted |-> FALSE]

NoToken == [hash |-> hashToken(0), appID |-> "", userID |-> 0, expiresAt |-> 0, revoked |-> FALSE]

\* snapshot of the presented refresh token's record when a call starts
NoPre == [valid |-> FALSE, revoked |-> FALSE, expired |-> FALSE, used |-> FALSE]

\* one request: its inputs (op .. uid; asub, aud and vemail are the subject,
\* the audience and the email claim of the identity assertion; gone counts
\* the rows a DeleteAccount transaction removed), the handler's locals (user, stored), the state of the presented refresh token
\* (pre) and of the registered email (had) when the call started, the tenant
\* of the user row its scoped lookup returned (foundApp) and the response
\* (status, err, and sub / tokApp / newRaw of a session pair)
NoCall == [op |-> "none", appID |-> "", email |-> "", pw |-> << >>, raw |-> 0, uid |-> 0, asub |-> "",
           aud |-> "", vemail |-> "", gone |-> [tokens |-> 0, subscriptions |-> 0, reports |-> 0, blocks |-> 0],
           user |-> NoUser, stored |-> NoToken, pre |-> NoPre, had |-> "none", foundApp |-> "",
           status |-> 0, err |-> "", sub |-> 0, tokApp |-> "", newRaw |-> 0]

\* a call of operation op under tenant appID starts
Req(op, appID, email, pw, raw, uid) ==
    [NoCall EXCEPT !.op = op, !.appID = appID, !.email = email, !.pw = pw, !.raw = raw, !.uid = uid]

\* the handler returns: its locals go out of scope
Done(c, status, err) == [c EXCEPT !.status = status, !.err = err, !.user = NoUser, !.stored = NoToken]

\* the handler answers with an error
Fail(c, status, err) == Done(c, status, err)

\* a scoped user lookup returned the row u
Found(c, u) == [c EXCEPT !.user = u, !.foundApp = u.appID]

\* room for one more user / token, leaving room for the calls in flight
Busy(p) == Cardinality({q \in Procs \ {p} : pc[q] # "idle"})

UserBudget(p) == nextUser + Busy(p) <= MaxUsers

TokenBudget(p) == nextRaw + Busy(p) <= MaxTokens

\* the state of the presented refresh token when a Refresh call starts:
\* a usable row of the tenant whose owner is a live user of the tenant
\* (valid), a revoked or an expired row, a token already used successfully
PreOf(appID, raw) ==
    LET recs == {t \in tokens : t.hash = hashToken(raw)}
    IN  [valid |-> \E t \in recs : /\ t.appID = appID /\ ~t.revoked /\ now <= t.expiresAt
                                    /\ \E u \in users : u.id = t.userID /\ u.appID = appID /\ ~u.deleted,
         revoked |-> \E t \in recs : t.revoked,
         expired |-> \E t \in recs : now > t.expiresAt,
         used |-> raw \in usedOK]

\* whether a Register call has created a user row for (appID, email) when a
\* call starts: none, a live one, a soft-deleted one
HadOf(appID, email) ==
    LET rows == {u \in users : u.appID = appID /\ u.email = email /\ u.password # << >>}
    IN  IF rows = {} THEN "none"
        ELSE IF \E u \in rows : ~u.deleted THEN "live" ELSE "deleted"

\* an access token presented as bearer: its claims and whether its HS256
\* signature verifies under the shared secret
NoBearer == [sub |-> 0, email |-> "", app |-> "", exp |-> 0, sigOK |-> FALSE]

\* a request in the middleware chain: the route, the bearer token, the
\* X-App-ID and X-Admin-Token headers and the app_id query parameter, the
\* fiber locals "user" and
\* "app_id" (src tells which source set it), the response status and
\* whether the route's handler ran
NoHttp == [stage |-> "idle", route |-> "", bearer |-> NoBearer, hdr |-> "", qry |-> "", adminTok |-> "",
           user |-> NoBearer, app |-> "", src |-> "", status |-> 0, ran |-> FALSE]

\* config.Load: ADMIN_EMAILS, ADMIN_USER_IDS and ADMIN_TOKEN default to ""
DefaultCfg == [AdminToken |-> "", AdminEmails |-> {}, AdminUserIDs |-> {}]

\* NewAppleJWKSClient: an empty key map and the zero expiry time; a cached
\* key is its identifier and the time its key set was fetched
NoKeys == [keys |-> {}, expiresAt |-> 0]

NoKey == [kid |-> "", fetchedAt |-> 0]

\* the body of a key-set response: its number, the key identifiers it lists
\* and those of them whose modulus or exponent does not decode
NoBody == [gen |-> 0, kids |-> {}, bad |-> {}]

\* NewAppleJWKSClient: the shared cache, empty, zero expiry, mutex unlocked
NoCache == [keys |-> {}, expiresAt |-> 0, mu |-> [readers |-> 0, writer |-> FALSE]]

\* one GetPublicKey call: its position, the key asked for, the decoded
\* response, the entries still to insert, the key or the error returned
NoGp == [pc |-> "idle", kid |-> "", body |-> NoBody, todo |-> {}, key |-> NoBody, err |-> ""]

InitBg ==
    /\ shared = NoCache
    /\ gp = [p \in Procs |-> NoGp]
    /\ served = 0
    /\ completed = {}
    /\ buffer = << >>
    /\ batches = << >>
    /\ loop = [pc |-> "select", batch |-> << >>, last |-> FALSE]
    /\ flushes = [started |-> 0, writing |-> {}]
    /\ done = FALSE
    /\ tick = FALSE
    /\ accepted = 0

NoAssertion == [parts |-> 0, alg |-> "", kid |-> "", payloadOK |-> FALSE, iss |-> "", aud |-> "",
                exp |-> 0, sub |-> "", email |-> "", sigOK |-> FALSE]

\* one VerifyToken call: the assertion and the expected audience, the key
\* GetPublicKey returned, whether it came from the cache (hit) or how the
\* fetch went (fetch), the steps run so far and the result ("ok" or the
\* error)
NoVt == [stage |-> "idle", a |-> NoAssertion, bundleID |-> "", key |-> NoKey,
         hit |-> FALSE, fetch |-> "none", steps |-> << >>, result |-> ""]

\* a compact access token: the base64url characters (as 6-bit values) of
\* its payload and signature segments
NoJwt == [payload |-> << >>, sig |-> << >>]

\* the token generateAccessToken issued, the token the client presents,
\* and jwtware's verdict with the claims it stored in the "user" local
NoJw == [stage |-> "idle", issued |-> NoJwt, presented |-> NoJwt, accepted |-> FALSE,
         claims |-> << >>]

\* an entry of the apps file and the file itself: whether it can be read,
\* whether it parses as JSON, its "apps" array
AppConfig(appID, bundleID) == [AppID |-> appID, BundleID |-> bundleID]

AppsFile(readable, parses, apps) == [readable |-> readable, parses |-> parses, apps |-> apps]

\* NewRegistry: an empty map
NewRegistry == [k \in {} |-> AppConfig("", "")]

\* Registry.Register: r.apps[cfg.AppID] = cfg
Register(apps, c) ==
    [k \in (DOMAIN apps) \cup {c.AppID} |-> IF k = c.AppID THEN c ELSE apps[k]]

\* the loop of LoadFromFile over file.Apps
RECURSIVE RegisterAll(_, _)
RegisterAll(apps, entries) ==
    IF entries = << >> THEN apps
    ELSE RegisterAll(Register(apps, Head(entries)), Tail(entries))

\* a loader that reports no error
LoadFromFileNoError(file) ==
    [err |-> "", registry |-> IF file.readable /\ file.parses
                              THEN RegisterAll(NewRegistry, file.apps) ELSE NewRegistry]

\* LoadFromFile: read, unmarshal, register every entry
LoadFromFile(file) ==
    IF ~file.readable THEN [err |-> "failed to read apps config", registry |-> NewRegistry]
    ELSE IF ~file.parses THEN [err |-> "failed to parse apps config", registry |-> NewRegistry]
    ELSE [err |-> "", registry |-> RegisterAll(NewRegistry, file.apps)]

\* the process: its position in main, the environment (JWT_SECRET,
\* DB_PASSWORD), the apps file, the registry and error LoadFromFile
\* returned, whether app.Listen has been called, the exit code
TheAppsFile ==
    AppsFile(TRUE, TRUE, <<AppConfig("t1", "com.app.one"), AppConfig("t2", "com.app.two")>>)

Serving ==
    [stage |-> "serving", JWTSecret |-> "secret", DBPassword |-> "pw", file |-> TheAppsFile,
     registry |-> RegisterAll(NewRegistry, TheAppsFile.apps), err |-> "",
     listening |-> TRUE, exit |-> 0]

\* -------------------------------------------------------------------- Init
Init ==
    /\ cfg = DefaultCfg
    /\ InitBg
    /\ boot = Serving
    /\ jwks = NoKeys
    /\ vt = NoVt
    /\ jw = NoJw
    /\ subscriptions = {}
    /\ reports = {}
    /\ blocks = {}
    /\ users = {}
    /\ tokens = {}
    /\ now = 0
    /\ nextUser = 1
    /\ nextRaw = 1
    /\ pc = [p \in Procs |-> "idle"]
    /\ call = [p \in Procs |-> NoCall]
    /\ usedOK = {}
    /\ http = NoHttp

\* ------------------------------------------------------- AuthService steps
\* a Register that skips the existence check
RegisterExistingNone(rows, appID, email) == {}

\* Register: SELECT ... WHERE app_id = ? AND email = ? (live rows)
RegisterExisting(rows, appID, email) ==
    {u \in Live(ForTenant(rows, appID)) : u.email = email}

\* a Login whose two failures differ
LoginFailureLeaky(found) ==
    IF found THEN [status |-> 401, err |-> "invalid password"]
    ELSE [status |-> 404, err |-> "user not found"]

\* Login: ErrInvalidCredentials for an unknown email (found = FALSE) and
\* for a wrong password (found = TRUE); the handler answers 401 with it
LoginFailure(found) == [status |-> 401, err |-> "invalid email or password"]

\* an access token that carries no subject
generateAccessTokenNoSub(appID, user) == [sub |-> 0, email |-> user.email, app_id |-> appID]

\* generateAccessToken: the claims sub, email and app_id of the signed token
generateAccessToken(appID, user) == [sub |-> user.id, email |-> user.email, app_id |-> appID]

\* an expiry check that never fires
ExpiredNever(t, stored) == FALSE

\* Refresh: time.Now().After(stored.ExpiresAt)
Expired(t, stored) == t > stored.expiresAt

\* Register: input check and existence check
RegisterBegin(p, pws) ==
    /\ pc[p] = "idle"
    /\ \E appID \in Tenants, email \in Emails, pw \in pws :
         LET c == [Req("register", appID, email, pw, 0, 0) EXCEPT !.had = HadOf(appID, email)]
             existing == RegisterExisting(users, appID, email)
         IN  IF email = "" \/ GoLen(pw) < MinPasswordLen
             THEN /\ call' = [call EXCEPT ![p] = Fail(c, 400, "email required and password must be at least 8 characters")]
                  /\ pc' = [pc EXCEPT ![p] = "done"]
             ELSE IF existing # {}
             THEN /\ \E u \in existing :
                       call' = [call EXCEPT ![p] = Fail(Found(c, u), 409, "email already registered")]
                  /\ pc' = [pc EXCEPT ![p] = "done"]
             ELSE /\ UserBudget(p)
                  /\ TokenBudget(p)
                  /\ call' = [call EXCEPT ![p] = c]
                  /\ pc' = [pc EXCEPT ![p] = "reg_create"]
    /\ UNCHANGED <<sideVars, dataVars, http, users, tokens, now, nextUser, nextRaw, usedOK>>

\* Register: hash the password and insert the user row
RegisterCreate(p) ==
    /\ pc[p] = "reg_create"
    /\ LET c == call[p]
           user == [id |-> nextUser, appID |-> c.appID, email |-> c.email,
                    password |-> BcryptHash(c.pw), role |-> "user",
                    appleUserID |-> Nil, authProvider |-> "email", deleted |-> FALSE]
       IN  IF EmailIndexClash(users, c.appID, c.email)
           THEN /\ call' = [call EXCEPT ![p] = Fail(c, 400, "failed to create user: " \o UniqueViolation)]
                /\ pc' = [pc EXCEPT ![p] = "done"]
                /\ UNCHANGED <<users, nextUser>>
           ELSE /\ users' = users \cup {user}
                /\ nextUser' = nextUser + 1
                /\ call' = [call EXCEPT ![p] = [c EXCEPT !.user = user]]
                /\ pc' = [pc EXCEPT ![p] = "issue"]
    /\ UNCHANGED <<sideVars, dataVars, http, tokens, now, nextRaw, usedOK>>

\* Login: user lookup by (tenant, email) and password comparison
LoginBegin(p) ==
    /\ pc[p] = "idle"
    /\ \E appID \in Tenants, email \in Emails, pw \in Passwords :
         LET c == Req("login", appID, email, pw, 0, 0)
             found == {u \in Live(ForTenant(users, appID)) : u.email = email}
         IN  IF found = {}
             THEN /\ call' = [call EXCEPT ![p] = Fail(c, LoginFailure(FALSE).status, LoginFailure(FALSE).err)]
                  /\ pc' = [pc EXCEPT ![p] = "done"]
             ELSE \E u \in found :
                    IF ~CompareHashAndPassword(u.password, pw)
                    THEN /\ call' = [call EXCEPT ![p] = Fail(Found(c, u), LoginFailure(TRUE).status, LoginFailure(TRUE).err)]
                         /\ pc' = [pc EXCEPT ![p] = "done"]
                    ELSE /\ TokenBudget(p)
                         /\ call' = [call EXCEPT ![p] = Found(c, u)]
                         /\ pc' = [pc EXCEPT ![p] = "issue"]
    /\ UNCHANGED <<sideVars, dataVars, http, users, tokens, now, nextUser, nextRaw, usedOK>>

\* a record that forgets the tenant column
generateRefreshTokenUnscoped(appID, user, raw, t) ==
    [hash |-> hashToken(raw), appID |-> "", userID |-> user.id,
     expiresAt |-> t + JWTRefreshExpiry, revoked |-> FALSE]

\* generateRefreshToken: the record stored for the raw token raw at time t
generateRefreshToken(appID, user, raw, t) ==
    [hash |-> hashToken(raw), appID |-> appID, userID |-> user.id,
     expiresAt |-> t + JWTRefreshExpiry, revoked |-> FALSE]

\* generateTokenPair: sign the access token for the in-memory user and
\* insert the refresh-token row; the handler answers 201 (register) or 200
GenerateTokenPair(p) ==
    /\ pc[p] = "issue"
    /\ LET c == call[p]
           record == generateRefreshToken(c.appID, c.user, nextRaw, now)
           access == generateAccessToken(c.appID, c.user)
           ok == [c EXCEPT !.sub = access.sub, !.tokApp = access.app_id, !.newRaw = nextRaw]
       IN  /\ tokens' = tokens \cup {record}
           /\ nextRaw' = nextRaw + 1
           /\ call' = [call EXCEPT ![p] = Done(ok, IF c.op = "register" THEN 201 ELSE 200, "")]
           /\ usedOK' = IF c.op = "refresh" THEN usedOK \cup {c.raw} ELSE usedOK
    /\ pc' = [pc EXCEPT ![p] = "done"]
    /\ UNCHANGED <<sideVars, dataVars, http, users, now, nextUser>>

\* Refresh: look the presented token up by hash among the unrevoked rows of
\* the tenant
RefreshBegin(p) ==
    /\ pc[p] = "idle"
    /\ \E appID \in Tenants, raw \in 0..(nextRaw - 1) :
         LET c == [Req("refresh", appID, "", << >>, raw, 0) EXCEPT !.pre = PreOf(appID, raw)]
             found == {t \in ForTenant(tokens, appID) : t.hash = hashToken(raw) /\ ~t.revoked}
         IN  IF found = {}
             THEN /\ call' = [call EXCEPT ![p] = Fail(c, 401, "invalid or expired refresh token")]
                  /\ pc' = [pc EXCEPT ![p] = "done"]
             ELSE \E t \in found :
                    /\ TokenBudget(p)
                    /\ call' = [call EXCEPT ![p] = [c EXCEPT !.stored = t]]
                    /\ pc' = [pc EXCEPT ![p] = "rf_revoke"]
    /\ UNCHANGED <<sideVars, dataVars, http, users, tokens, now, nextUser, nextRaw, usedOK>>

\* an update that is never issued
MarkRevokedNot(rows, hash) == rows

\* db.Model(&stored).Update("revoked", true): UPDATE ... WHERE id = stored.ID
MarkRevoked(rows, hash) ==
    {IF t.hash = hash THEN [t EXCEPT !.revoked = TRUE] ELSE t : t \in rows}

\* Refresh: expiry check; the stored row is marked revoked on both branches
RefreshRevoke(p) ==
    /\ pc[p] = "rf_revoke"
    /\ LET c == call[p]
       IN  /\ tokens' = MarkRevoked(tokens, c.stored.hash)
           /\ IF Expired(now, c.stored)
              THEN /\ call' = [call EXCEPT ![p] = Fail(c, 401, "invalid or expired refresh token")]
                   /\ pc' = [pc EXCEPT ![p] = "done"]
              ELSE /\ call' = call
                   /\ pc' = [pc EXCEPT ![p] = "rf_load"]
    /\ UNCHANGED <<sideVars, dataVars, http, users, now, nextUser, nextRaw, usedOK>>

\* Refresh: load the owner of the stored token inside the tenant
RefreshLoad(p) ==
    /\ pc[p] = "rf_load"
    /\ LET c == call[p]
           found == {u \in Live(ForTenant(users, c.appID)) : u.id = c.stored.userID}
       IN  IF found = {}
           THEN /\ call' = [call EXCEPT ![p] = Fail(c, 500, "Internal server error")]
                /\ pc' = [pc EXCEPT ![p] = "done"]
           ELSE \E u \in found :
                  /\ call' = [call EXCEPT ![p] = Found(c, u)]
                  /\ pc' = [pc EXCEPT ![p] = "issue"]
    /\ UNCHANGED <<sideVars, dataVars, http, users, tokens, now, nextUser, nextRaw, usedOK>>

\* an update that flips the flag instead of setting it
LogoutUpdateToggle(rows, appID, hash) ==
    {IF t \in ForTenant(rows, appID) /\ t.hash = hash
     THEN [t EXCEPT !.revoked = ~t.revoked] ELSE t : t \in rows}

\* Logout: UPDATE refresh_tokens SET revoked = true WHERE app_id = ? AND
\* token_hash = ?
LogoutUpdate(rows, appID, hash) ==
    {IF t \in ForTenant(rows, appID) /\ t.hash = hash
     THEN [t EXCEPT !.revoked = TRUE] ELSE t : t \in rows}

\* Logout; the route is JWT-protected, the caller holds an access token
Logout(p) ==
    /\ pc[p] = "idle"
    /\ nextUser > 1
    /\ \E appID \in Tenants, raw \in 0..(nextRaw - 1) :
         /\ tokens' = LogoutUpdate(tokens, appID, hashToken(raw))
         /\ call' = [call EXCEPT ![p] =
                       Done([Req("logout", appID, "", << >>, raw, 0) EXCEPT !.pre = PreOf(appID, raw)],
                            200, "")]
    /\ pc' = [pc EXCEPT ![p] = "done"]
    /\ UNCHANGED <<sideVars, dataVars, http, users, now, nextUser, nextRaw, usedOK>>

\* DeleteAccount: load the principal's user row inside the tenant and
\* re-authenticate (skipped for apple accounts)
DeleteBegin(p) ==
    /\ pc[p] = "idle"
    /\ \E appID \in Tenants, uid \in 1..(nextUser - 1), pw \in Passwords :
         LET c == Req("delete", appID, "", pw, 0, uid)
             found == {u \in Live(ForTenant(users, appID)) : u.id = uid}
         IN  IF found = {}
             THEN /\ call' = [call EXCEPT ![p] = Fail(c, 404, "User not found")]
                  /\ pc' = [pc EXCEPT ![p] = "done"]
             ELSE \E u \in found :
                    IF u.authProvider # "apple" /\ pw = PwEmpty
                    THEN /\ call' = [call EXCEPT ![p] = Fail(Found(c, u), 400, "Password is required")]
                         /\ pc' = [pc EXCEPT ![p] = "done"]
                    ELSE IF u.authProvider # "apple" /\ ~CompareHashAndPassword(u.password, pw)
                    THEN /\ call' = [call EXCEPT ![p] = Fail(Found(c, u), 401, "Incorrect password. Please try again.")]
                         /\ pc' = [pc EXCEPT ![p] = "done"]
                    ELSE /\ call' = [call EXCEPT ![p] = Found(c, u)]
                         /\ pc' = [pc EXCEPT ![p] = "del_tx"]
    /\ UNCHANGED <<sideVars, dataVars, http, users, tokens, now, nextUser, nextRaw, usedOK>>

\* the rows DeleteAccount's transaction deletes: user_id = ? AND app_id = ?
OwnedBy(rows, uid, appID) == {r \in rows : r.userID = uid /\ r.appID = appID}

\* reporter_id = ? AND app_id = ?
ReportedBy(rows, uid, appID) == {r \in rows : r.reporterID = uid /\ r.appID = appID}

\* (blocker_id = ? OR blocked_id = ?) AND app_id = ?
BlocksOf(rows, uid, appID) ==
    {r \in rows : (r.blockerID = uid \/ r.blockedID = uid) /\ r.appID = appID}

\* a transaction that keeps its writes when the callback fails
TransactionNoRollback(failed, before, after) == after

\* db.Transaction: the writes of the callback are committed when it returns
\* nil and rolled back when it returns an error
Transaction(failed, before, after) == IF failed THEN before ELSE after

\* DeleteAccount: the transaction removes the user's refresh tokens,
\* subscriptions, reports and blocks of the tenant and soft-deletes the user
\* row; a statement that fails aborts the transaction, so the last
\* statement fails too and its error is returned
DeleteTx(p) ==
    /\ pc[p] = "del_tx"
    /\ \E failed \in BOOLEAN :
         LET c == call[p]
             before == [users |-> users, tokens |-> tokens, subscriptions |-> subscriptions,
                        reports |-> reports, blocks |-> blocks]
             after == [users |-> {IF u.id = c.user.id THEN [u EXCEPT !.deleted = TRUE] ELSE u : u \in users},
                       tokens |-> tokens \ OwnedBy(tokens, c.uid, c.appID),
                       subscriptions |-> subscriptions \ OwnedBy(subscriptions, c.uid, c.appID),
                       reports |-> reports \ ReportedBy(reports, c.uid, c.appID),
                       blocks |-> blocks \ BlocksOf(blocks, c.uid, c.appID)]
             db == Transaction(failed, before, after)
             gone == [tokens |-> Cardinality(OwnedBy(tokens, c.uid, c.appID)),
                      subscriptions |-> Cardinality(OwnedBy(subscriptions, c.uid, c.appID)),
                      reports |-> Cardinality(ReportedBy(reports, c.uid, c.appID)),
                      blocks |-> Cardinality(BlocksOf(blocks, c.uid, c.appID))]
         IN  /\ users' = db.users
             /\ tokens' = db.tokens
             /\ subscriptions' = db.subscriptions
             /\ reports' = db.reports
             /\ blocks' = db.blocks
             /\ call' = [call EXCEPT ![p] =
                           IF failed THEN Fail(c, 500, "Failed to delete account")
                           ELSE Done([c EXCEPT !.gone = gone], 200, "")]
    /\ pc' = [pc EXCEPT ![p] = "done"]
    /\ UNCHANGED <<sideVars, http, now, nextUser, nextRaw, usedOK>>

\* Registry.GetBundleID: the identity audience configured for the tenant
GetBundleID(appID) == IF appID = "t1" THEN "com.app.one" ELSE "com.app.two"

\* an identity assertion: the number of dot-separated segments, the header
\* (alg, kid), whether the payload segment decodes, the claims (iss, aud,
\* exp, sub, email) and whether the signature segment is the provider's
\* RS256 signature of header.payload
Assertion(aud, exp, sub, email) ==
    [parts |-> 3, alg |-> "RS256", kid |-> "k1", payloadOK |-> TRUE, iss |-> AppleIssuer,
     aud |-> aud, exp |-> exp, sub |-> sub, email |-> email, sigOK |-> TRUE]

\* the assertions a client may present: well-formed ones for every audience,
\* expiry, subject and email, and one with each single defect (among them
\* audiences that differ from a configured one in case or in length)
Assertions ==
    LET good == {Assertion(GetBundleID(t), e, s, m) :
                   t \in Tenants, e \in {0, MaxTime}, s \in AppleSubs, m \in Emails}
        base == Assertion(GetBundleID("t1"), MaxTime, "s1", "a@x.com")
    IN  good \cup {[base EXCEPT !.parts = 2], [base EXCEPT !.alg = "HS256"],
                   [base EXCEPT !.kid = "k0"], [base EXCEPT !.iss = "https://evil.example"],
                   [base EXCEPT !.sigOK = FALSE], [base EXCEPT !.payloadOK = FALSE],
                   [base EXCEPT !.aud = "COM.APP.ONE"], [base EXCEPT !.aud = "com.app"]}

\* a verifier that does not compare the audience
VerifyTokenNoAud(a, bundleID, t) ==
    IF a.parts # 3 THEN "invalid token format"
    ELSE IF a.alg # "RS256" THEN "unsupported algorithm"
    ELSE IF a.kid \notin AppleKids THEN "failed to get public key"
    ELSE IF ~a.payloadOK THEN "failed to decode claims"
    ELSE IF a.iss # AppleIssuer THEN "invalid issuer"
    ELSE IF t > a.exp THEN "token expired"
    ELSE IF ~a.sigOK THEN "signature verification failed"
    ELSE "ok"

\* AppleJWKSClient.VerifyToken: the checks in the order of the code, with
\* the provider's key set reachable; the result is "ok" or the error
VerifyToken(a, bundleID, t) ==
    IF a.parts # 3 THEN "invalid token format"
    ELSE IF a.alg # "RS256" THEN "unsupported algorithm"
    ELSE IF a.kid \notin AppleKids THEN "failed to get public key"
    ELSE IF ~a.payloadOK THEN "failed to decode claims"
    ELSE IF a.iss # AppleIssuer THEN "invalid issuer"
    ELSE IF a.aud # bundleID THEN "invalid audience"
    ELSE IF t > a.exp THEN "token expired"
    ELSE IF ~a.sigOK THEN "signature verification failed"
    ELSE "ok"

\* AppleSignIn: verify the assertion, derive the email and look the user up
\* by subject or email inside the tenant
AppleBegin(p) ==
    /\ pc[p] = "idle"
    /\ \E appID \in Tenants, a \in Assertions, reqEmail \in Emails :
         LET v == VerifyToken(a, GetBundleID(appID), now)
             email == IF a.email # "" THEN a.email
                      ELSE IF reqEmail # "" THEN reqEmail
                      ELSE a.sub \o "@privaterelay.appleid.com"
             c == [Req("apple", appID, email, << >>, 0, 0) EXCEPT !.asub = a.sub, !.aud = a.aud, !.vemail = a.email]
             found == {u \in Live(ForTenant(users, appID)) : u.appleUserID = a.sub \/ u.email = email}
         IN  IF v # "ok"
             THEN /\ call' = [call EXCEPT ![p] = Fail(c, 401, "failed to verify Apple identity token: " \o v)]
                  /\ pc' = [pc EXCEPT ![p] = "done"]
             ELSE /\ TokenBudget(p)
                  /\ IF found = {}
                     THEN /\ UserBudget(p)
                          /\ call' = [call EXCEPT ![p] = c]
                     ELSE \E u \in found : call' = [call EXCEPT ![p] = Found(c, u)]
                  /\ pc' = [pc EXCEPT ![p] = "apple_upsert"]
    /\ UNCHANGED <<sideVars, dataVars, http, users, tokens, now, nextUser, nextRaw, usedOK>>

\* AppleSignIn: insert a new apple user, or link the subject to the user
\* found when it has none
AppleUpsert(p) ==
    /\ pc[p] = "apple_upsert"
    /\ LET c == call[p]
           user == [id |-> nextUser, appID |-> c.appID, email |-> c.email,
                    password |-> << >>, role |-> "user",
                    appleUserID |-> c.asub, authProvider |-> "apple", deleted |-> FALSE]
           linked == [c.user EXCEPT !.appleUserID = c.asub, !.authProvider = "apple"]
       IN  IF c.user = NoUser
           THEN IF EmailIndexClash(users, c.appID, c.email)
                THEN /\ call' = [call EXCEPT ![p] = Fail(c, 401, "failed to create Apple user: " \o UniqueViolation)]
                     /\ pc' = [pc EXCEPT ![p] = "done"]
                     /\ UNCHANGED <<users, nextUser>>
                ELSE /\ users' = users \cup {user}
                     /\ nextUser' = nextUser + 1
                     /\ call' = [call EXCEPT ![p] = [c EXCEPT !.user = user]]
                     /\ pc' = [pc EXCEPT ![p] = "issue"]
           ELSE IF c.user.appleUserID = Nil
           THEN /\ users' = {IF u.id = c.user.id /\ ~u.deleted
                             THEN [u EXCEPT !.appleUserID = c.asub, !.authProvider = "apple"]
                             ELSE u : u \in users}
                /\ call' = [call EXCEPT ![p] = [c EXCEPT !.user = linked]]
                /\ pc' = [pc EXCEPT ![p] = "issue"]
                /\ UNCHANGED nextUser
           ELSE /\ call' = call
                /\ pc' = [pc EXCEPT ![p] = "issue"]
                /\ UNCHANGED <<users, nextUser>>
    /\ UNCHANGED <<sideVars, dataVars, http, tokens, now, nextRaw, usedOK>>

\* the response has been written to the client: the request is over
Return(p) ==
    /\ pc[p] = "done"
    /\ pc' = [pc EXCEPT ![p] = "idle"]
    /\ call' = [call EXCEPT ![p] = NoCall]
    /\ UNCHANGED <<sideVars, dataVars, http, users, tokens, now, nextUser, nextRaw, usedOK>>

\* the clock advances between requests
Tick ==
    /\ now < MaxTime
    /\ \A p \in Procs : pc[p] = "idle"
    /\ vt.stage = "idle"
    /\ now' = now + 1
    /\ UNCHANGED <<sideVars, dataVars, http, users, tokens, nextUser, nextRaw, pc, call, usedOK>>

\* the password and token operations of one request
Step(p) ==
    \/ RegisterBegin(p, Passwords)
    \/ RegisterCreate(p)
    \/ LoginBegin(p)
    \/ GenerateTokenPair(p)
    \/ RefreshBegin(p)
    \/ RefreshRevoke(p)
    \/ RefreshLoad(p)
    \/ Logout(p)
    \/ DeleteBegin(p)
    \/ DeleteTx(p)
    \/ Return(p)

\* one request at a time
Next ==
    \/ Step(1)
    \/ Tick

Spec == Init /\ [][Next]_vars

\* third-party sign-in
AppleStep(p) ==
    \/ AppleBegin(p)
    \/ AppleUpsert(p)

\* every operation on users, one request at a time; the clock stands still
NextIsolation ==
    \/ Step(1)
    \/ AppleStep(1)

SpecIsolation == Init /\ [][NextIsolation]_vars

\* concurrent requests: register and refresh calls of two goroutines, their
\* database statements interleaved
ConcStep(p) ==
    \/ RegisterBegin(p, {PwGood})
    \/ RegisterCreate(p)
    \/ GenerateTokenPair(p)
    \/ RefreshBegin(p)
    \/ RefreshRevoke(p)
    \/ RefreshLoad(p)
    \/ Return(p)

NextConc == \E p \in Procs : ConcStep(p)

SpecConc == Init /\ [][NextConc]_vars

\* register calls over every password, non-ASCII ones included
NextInput ==
    \/ RegisterBegin(1, AllPasswords)
    \/ RegisterCreate(1)
    \/ GenerateTokenPair(1)
    \/ Return(1)

SpecInput == Init /\ [][NextInput]_vars

\* ------------------------------------------------ tenant-scoped artifacts
\* uuid.New() for a row of a table: an identifier no row of it carries
FreshId(rows) == CHOOSE i \in 1..MaxRows : \A r \in rows : r.id # i

\* room for one more row
RowBudget == Cardinality(subscriptions) + Cardinality(reports) + Cardinality(blocks) < MaxRows

\* the requests of this section are served one at a time
Quiet == \A p \in Procs : pc[p] = "idle"

\* ModerationService.CreateReport: the reporter is the subject of the
\* caller's access token, the tenant the one bound to the request
CreateReport ==
    /\ Quiet
    /\ RowBudget
    /\ \E appID \in Tenants, reporterID \in 1..(nextUser - 1) :
         reports' = reports \cup {[id |-> FreshId(reports), appID |-> appID, reporterID |-> reporterID]}
    /\ UNCHANGED <<sideVars, subscriptions, blocks, authVars, http>>

\* ModerationService.BlockUser: no self-block, no second block of the same
\* pair in the tenant
BlockUser ==
    /\ Quiet
    /\ RowBudget
    /\ \E appID \in Tenants, blockerID \in 1..(nextUser - 1), blockedID \in 1..MaxUsers :
         /\ blockerID # blockedID
         /\ ~\E b \in ForTenant(blocks, appID) : b.blockerID = blockerID /\ b.blockedID = blockedID
         /\ blocks' = blocks \cup {[id |-> FreshId(blocks), appID |-> appID,
                                    blockerID |-> blockerID, blockedID |-> blockedID]}
    /\ UNCHANGED <<sideVars, subscriptions, reports, authVars, http>>

\* SubscriptionService.handleInitialPurchase: the subscription belongs to
\* the user of the tenant with the event's app_user_id, or to nobody (the
\* zero uuid) when the tenant has no such user
handleInitialPurchase ==
    /\ Quiet
    /\ RowBudget
    /\ \E appID \in Tenants, appUserID \in 1..MaxUsers :
         LET found == {u \in Live(ForTenant(users, appID)) : u.id = appUserID}
         IN  subscriptions' = subscriptions \cup
               {[id |-> FreshId(subscriptions), appID |-> appID,
                 userID |-> IF found = {} THEN 0 ELSE appUserID]}
    /\ UNCHANGED <<sideVars, reports, blocks, authVars, http>>

\* register, the artifact-creating requests and deleteAccount
NextDelete ==
    \/ RegisterBegin(1, {PwGood})
    \/ RegisterCreate(1)
    \/ GenerateTokenPair(1)
    \/ CreateReport
    \/ BlockUser
    \/ handleInitialPurchase
    \/ DeleteBegin(1)
    \/ DeleteTx(1)
    \/ Return(1)

SpecDelete == Init /\ [][NextDelete]_vars

\* ------------------------------------------- identity assertion verifier
\* the key sets the provider's endpoint serves: the current one, or one
\* from which the asked-for key has been rotated out
PublishedKeySets == {AppleKids, {}}

\* a cache that never expires
CacheFreshAlways(cache, kid, t) == \E k \in cache.keys : k.kid = kid

\* GetPublicKey: c.cache.keys[kid] exists && time.Now().Before(expiresAt)
CacheFresh(cache, kid, t) == (\E k \in cache.keys : k.kid = kid) /\ t < cache.expiresAt

\* fetchKeys: a new key map and expiresAt = time.Now().Add(24 * time.Hour)
FetchedKeys(ks, t) ==
    [keys |-> {[kid |-> k, fetchedAt |-> t] : k \in ks}, expiresAt |-> t + JWKSTTL]

\* a validation that forgets the expiry
ValidateClaimsNoExpiry(a, bundleID, t) ==
    IF a.iss # AppleIssuer THEN "invalid issuer"
    ELSE IF a.aud # bundleID THEN "invalid audience"
    ELSE "ok"

\* VerifyToken: issuer, audience and expiry of the decoded claims
ValidateClaims(a, bundleID, t) ==
    IF a.iss # AppleIssuer THEN "invalid issuer"
    ELSE IF a.aud # bundleID THEN "invalid audience"
    ELSE IF t > a.exp THEN "token expired"
    ELSE "ok"

\* VerifyToken runs the step named step: it fails with err, or goes on
VtRun(step, err, next) ==
    vt' = IF err # "ok"
          THEN [vt EXCEPT !.steps = Append(vt.steps, step), !.stage = "done", !.result = err]
          ELSE [vt EXCEPT !.steps = Append(vt.steps, step), !.stage = next]

\* VerifyToken: strings.Split(identityToken, ".") must give three segments
VtSplit ==
    /\ vt.stage = "idle"
    /\ \E a \in Assertions, appID \in Tenants :
         vt' = IF a.parts # 3
               THEN [NoVt EXCEPT !.a = a, !.bundleID = GetBundleID(appID), !.steps = <<"split">>,
                                 !.stage = "done", !.result = "invalid token format"]
               ELSE [NoVt EXCEPT !.a = a, !.bundleID = GetBundleID(appID), !.steps = <<"split">>,
                                 !.stage = "header"]
    /\ UNCHANGED <<boot, cfg, bgVars, jwks, jw, dataVars, authVars, http>>

\* VerifyToken: the header is decoded and its algorithm must be RS256
VtHeader ==
    /\ vt.stage = "header"
    /\ VtRun("header", IF vt.a.alg # "RS256" THEN "unsupported algorithm" ELSE "ok", "key")
    /\ UNCHANGED <<boot, cfg, bgVars, jwks, jw, dataVars, authVars, http>>

\* GetPublicKey: the cached key when the cache is fresh, else a fetch
VtGetKey ==
    /\ vt.stage = "key"
    /\ IF CacheFresh(jwks, vt.a.kid, now)
       THEN vt' = [vt EXCEPT !.steps = Append(vt.steps, "key"), !.stage = "decode", !.hit = TRUE,
                             !.key = CHOOSE k \in jwks.keys : k.kid = vt.a.kid]
       ELSE vt' = [vt EXCEPT !.steps = Append(vt.steps, "key"), !.stage = "fetch"]
    /\ UNCHANGED <<boot, cfg, bgVars, jwks, jw, dataVars, authVars, http>>

\* fetchKeys: the ways the request for the key set fails (the client's
\* Get returns an error, a timeout of the 10 s client included; the status
\* is not 200; the body does not decode)
FetchFailures == {"failed to fetch JWKS", "JWKS endpoint returned status",
                  "failed to decode JWKS"}

\* a failed fetch that empties the cache
FetchFailedClears(cache) == NoKeys

\* fetchKeys: each failure returns before the cache is locked and written
FetchFailed(cache) == cache

\* fetchKeys and the second lookup of GetPublicKey: the request fails and
\* the cache is left as it was, or the served key set replaces the cache
VtFetch ==
    /\ vt.stage = "fetch"
    /\ \/ \E f \in FetchFailures :
            /\ vt' = [vt EXCEPT !.fetch = f, !.stage = "done",
                                !.result = "failed to get public key"]
            /\ jwks' = FetchFailed(jwks)
       \/ \E ks \in PublishedKeySets :
            /\ jwks' = FetchedKeys(ks, now)
            /\ vt' = IF vt.a.kid \in ks
                     THEN [vt EXCEPT !.fetch = "ok", !.stage = "decode",
                                     !.key = [kid |-> vt.a.kid, fetchedAt |-> now]]
                     ELSE [vt EXCEPT !.fetch = "ok", !.stage = "done",
                                     !.result = "failed to get public key"]
    /\ UNCHANGED <<boot, cfg, bgVars, jw, dataVars, authVars, http>>

\* VerifyToken: the payload segment is decoded into the claims
VtDecode ==
    /\ vt.stage = "decode"
    /\ VtRun("decode", IF ~vt.a.payloadOK THEN "failed to decode claims" ELSE "ok", "validate")
    /\ UNCHANGED <<boot, cfg, bgVars, jwks, jw, dataVars, authVars, http>>

\* VerifyToken: issuer, audience, expiry
VtValidate ==
    /\ vt.stage = "validate"
    /\ VtRun("validate", ValidateClaims(vt.a, vt.bundleID, now), "signature")
    /\ UNCHANGED <<boot, cfg, bgVars, jwks, jw, dataVars, authVars, http>>

\* VerifyToken: rsa.VerifyPKCS1v15 over header.payload; the claims are
\* returned
VtSignature ==
    /\ vt.stage = "signature"
    /\ vt' = [vt EXCEPT !.steps = Append(vt.steps, "signature"), !.stage = "done",
                        !.result = IF vt.a.sigOK THEN "ok" ELSE "signature verification failed"]
    /\ UNCHANGED <<boot, cfg, bgVars, jwks, jw, dataVars, authVars, http>>

\* VerifyToken has returned to its caller
VtReturn ==
    /\ vt.stage = "done"
    /\ vt' = NoVt
    /\ UNCHANGED <<boot, cfg, bgVars, jwks, jw, dataVars, authVars, http>>

NextVerify ==
    \/ VtSplit
    \/ VtHeader
    \/ VtGetKey
    \/ VtFetch
    \/ VtDecode
    \/ VtValidate
    \/ VtSignature
    \/ VtReturn
    \/ Tick

SpecVerify == Init /\ [][NextVerify]_vars

\* the verifier with the request of fetchKeys always completing: the HTTP
\* client is built with Timeout: 10 * time.Second, which bounds the Get and
\* the reading of the body
SpecVerifyLive == Init /\ [][NextVerify]_vars /\ WF_vars(VtFetch)

\* --------------------------------------- the key cache under concurrency
\* the key-set bodies the endpoint serves in this model
MaxFetches == 2

\* the identifiers a key set lists and a verifier may ask for
JwksKids == AppleKids \cup {"k2"}

\* an RLock that does not wait for the writer
CanRLockAlways(mu) == TRUE

\* sync.RWMutex: RLock waits while a writer holds the mutex
CanRLock(mu) == ~mu.writer

\* sync.RWMutex: Lock waits for the writer and for every reader to leave
CanLock(mu) == ~mu.writer /\ mu.readers = 0

\* the key map and expiry one whole run of fetchKeys leaves behind: every
\* listed key that parses, and the time of the run's last statement plus
\* the lifetime
FetchResult(body, t) ==
    [keys |-> {[gen |-> body.gen, kid |-> k] : k \in body.kids \ body.bad},
     expiresAt |-> t + JWKSTTL]

\* what a holder of the read lock sees of the cache
Observed == [keys |-> shared.keys, expiresAt |-> shared.expiresAt]

\* a verifier calls GetPublicKey(kid)
GpCall(p) ==
    /\ gp[p].pc = "idle"
    /\ \E kid \in JwksKids : gp' = [gp EXCEPT ![p] = [NoGp EXCEPT !.kid = kid, !.pc = "rlock"]]
    /\ UNCHANGED <<shared, served, completed>>

\* GetPublicKey: c.cache.mu.RLock(), before the first and the second lookup
GpRLock(p) ==
    /\ gp[p].pc \in {"rlock", "rlock2"}
    /\ CanRLock(shared.mu)
    /\ shared' = [shared EXCEPT !.mu.readers = @ + 1]
    /\ gp' = [gp EXCEPT ![p].pc = IF gp[p].pc = "rlock" THEN "read" ELSE "read2"]
    /\ UNCHANGED <<served, completed>>

\* GetPublicKey: the first lookup, under the read lock: the cached key when
\* it is there and the cache has not expired, else on to fetchKeys
GpRead(p) ==
    /\ gp[p].pc = "read"
    /\ shared' = [shared EXCEPT !.mu.readers = @ - 1]
    /\ gp' = IF (\E k \in shared.keys : k.kid = gp[p].kid) /\ now < shared.expiresAt
             THEN [gp EXCEPT ![p].pc = "done",
                             ![p].key = CHOOSE k \in shared.keys : k.kid = gp[p].kid]
             ELSE [gp EXCEPT ![p].pc = "get"]
    /\ UNCHANGED <<served, completed>>

\* fetchKeys: the request; it fails (error, status, undecodable body) and
\* GetPublicKey returns the error, or a body is decoded
GpGet(p) ==
    /\ gp[p].pc = "get"
    /\ \/ /\ gp' = [gp EXCEPT ![p].pc = "done", ![p].err = "failed to fetch JWKS"]
          /\ UNCHANGED served
       \/ /\ served < MaxFetches
          /\ served' = served + 1
          /\ \E bad \in {{}, {"k2"}} :
               gp' = [gp EXCEPT ![p].pc = "lock",
                                ![p].body = [gen |-> served + 1, kids |-> JwksKids, bad |-> bad]]
    /\ UNCHANGED <<shared, completed>>

\* fetchKeys: c.cache.mu.Lock()
GpLock(p) ==
    /\ gp[p].pc = "lock"
    /\ CanLock(shared.mu)
    /\ shared' = [shared EXCEPT !.mu.writer = TRUE]
    /\ gp' = [gp EXCEPT ![p].pc = "make"]
    /\ UNCHANGED <<served, completed>>

\* fetchKeys: c.cache.keys = make(map[string]*rsa.PublicKey)
GpMake(p) ==
    /\ gp[p].pc = "make"
    /\ shared' = [shared EXCEPT !.keys = {}]
    /\ gp' = [gp EXCEPT ![p].pc = "range", ![p].todo = gp[p].body.kids]
    /\ UNCHANGED <<served, completed>>

\* fetchKeys: one iteration of the loop over jwks.Keys: a key that does not
\* parse is skipped, the others are put into the map; after the last one
\* the expiry is set
GpRange(p) ==
    /\ gp[p].pc = "range"
    /\ IF gp[p].todo = {}
       THEN /\ shared' = [shared EXCEPT !.expiresAt = now + JWKSTTL]
            /\ completed' = completed \cup {FetchResult(gp[p].body, now)}
            /\ gp' = [gp EXCEPT ![p].pc = "unlock"]
       ELSE /\ \E k \in gp[p].todo :
                 /\ shared' = IF k \in gp[p].body.bad THEN shared
                              ELSE [shared EXCEPT
                                      !.keys = {e \in @ : e.kid # k}
                                               \cup {[gen |-> gp[p].body.gen, kid |-> k]}]
                 /\ gp' = [gp EXCEPT ![p].todo = @ \ {k}]
            /\ UNCHANGED completed
    /\ UNCHANGED served

\* fetchKeys: the deferred c.cache.mu.Unlock(), and the return to
\* GetPublicKey
GpUnlock(p) ==
    /\ gp[p].pc = "unlock"
    /\ shared' = [shared EXCEPT !.mu.writer = FALSE]
    /\ gp' = [gp EXCEPT ![p].pc = "rlock2"]
    /\ UNCHANGED <<served, completed>>

\* GetPublicKey: the second lookup, under the read lock, without the expiry
GpRead2(p) ==
    /\ gp[p].pc = "read2"
    /\ shared' = [shared EXCEPT !.mu.readers = @ - 1]
    /\ gp' = IF \E k \in shared.keys : k.kid = gp[p].kid
             THEN [gp EXCEPT ![p].pc = "done",
                             ![p].key = CHOOSE k \in shared.keys : k.kid = gp[p].kid]
             ELSE [gp EXCEPT ![p].pc = "done", ![p].err = "public key not found"]
    /\ UNCHANGED <<served, completed>>

\* the caller has the key or the error
GpReturn(p) ==
    /\ gp[p].pc = "done"
    /\ gp' = [gp EXCEPT ![p] = NoGp]
    /\ UNCHANGED <<shared, served, completed>>

\* one step of GetPublicKey; the rest of the state stays
GpStep(p) ==
    /\ \/ GpCall(p)
       \/ GpRLock(p)
       \/ GpRead(p)
       \/ GpGet(p)
       \/ GpLock(p)
       \/ GpMake(p)
       \/ GpRange(p)
       \/ GpUnlock(p)
       \/ GpRead2(p)
       \/ GpReturn(p)
    /\ UNCHANGED <<authVars, dataVars, http, cfg, jwks, vt, jw, boot, logVars>>

GetPublicKey == \E p \in Procs : GpStep(p)

NextKeys ==
    \/ GetPublicKey
    \/ Tick

SpecKeys == Init /\ [][NextKeys]_vars

\* ------------------------------------------------- the batching log handler
\* the records Handle is given in this model
MaxRecords == 3

\* Handle: len(h.buffer) >= 50 starts a flush; the model's buffer fills at
\* this smaller length
FlushThreshold == 2

\* flush, under the mutex: nothing when the buffer is empty, else the
\* buffer becomes the batch and a new empty buffer takes its place
FlushTakes(buf) == IF Len(buf) = 0 THEN << >> ELSE buf

\* Handle: the entry is appended under the mutex; at the threshold a
\* goroutine running flush is started
Handle ==
    /\ accepted < MaxRecords
    /\ accepted' = accepted + 1
    /\ buffer' = Append(buffer, accepted + 1)
    /\ flushes' = IF Len(buffer) + 1 >= FlushThreshold
                  THEN [flushes EXCEPT !.started = @ + 1]
                  ELSE flushes
    /\ UNCHANGED <<batches, loop, done, tick>>

\* the ticker delivers a tick (its channel holds one) until it is stopped
TimerFire ==
    /\ ~done /\ ~tick
    /\ tick' = TRUE
    /\ UNCHANGED <<buffer, batches, loop, flushes, done, accepted>>

\* flushLoop: case <-h.ticker.C: the first half of flush
LoopTick ==
    /\ loop.pc = "select" /\ tick
    /\ tick' = FALSE
    /\ loop' = IF FlushTakes(buffer) = << >> THEN loop
               ELSE [pc |-> "write", batch |-> FlushTakes(buffer), last |-> FALSE]
    /\ buffer' = << >>
    /\ UNCHANGED <<batches, flushes, done, accepted>>

\* flushLoop: case <-h.done: the first half of the last flush
LoopDone ==
    /\ loop.pc = "select" /\ done
    /\ loop' = IF FlushTakes(buffer) = << >> THEN [loop EXCEPT !.pc = "ended"]
               ELSE [pc |-> "write", batch |-> FlushTakes(buffer), last |-> TRUE]
    /\ buffer' = << >>
    /\ UNCHANGED <<batches, flushes, done, tick, accepted>>

\* flush run by flushLoop: CreateInBatches(batch, 50); the loop selects
\* again, or returns after the last flush
LoopWrite ==
    /\ loop.pc = "write"
    /\ batches' = Append(batches, loop.batch)
    /\ loop' = [pc |-> IF loop.last THEN "ended" ELSE "select", batch |-> << >>, last |-> FALSE]
    /\ UNCHANGED <<buffer, flushes, done, tick, accepted>>

\* go h.flush(), first half: a started goroutine takes the buffer
FlushTake ==
    /\ flushes.started > 0
    /\ flushes' = [started |-> flushes.started - 1,
                   writing |-> IF FlushTakes(buffer) = << >> THEN flushes.writing
                               ELSE flushes.writing \cup {FlushTakes(buffer)}]
    /\ buffer' = << >>
    /\ UNCHANGED <<batches, loop, done, tick, accepted>>

\* go h.flush(), second half: CreateInBatches(batch, 50)
FlushWrite ==
    /\ \E b \in flushes.writing :
         /\ batches' = Append(batches, b)
         /\ flushes' = [flushes EXCEPT !.writing = @ \ {b}]
    /\ UNCHANGED <<buffer, loop, done, tick, accepted>>

\* Stop, called once by main on shutdown: h.ticker.Stop(); close(h.done)
Stop ==
    /\ ~done
    /\ done' = TRUE
    /\ UNCHANGED <<buffer, batches, loop, flushes, tick, accepted>>

\* one step of the handler and its goroutines; the rest of the state stays
LogFrame == UNCHANGED <<authVars, dataVars, http, cfg, jwks, vt, jw, boot, keyVars>>

LogHandle == Handle /\ LogFrame

LogTimerFire == TimerFire /\ LogFrame

LogLoopTick == LoopTick /\ LogFrame

LogLoopDone == LoopDone /\ LogFrame

LogLoopWrite == LoopWrite /\ LogFrame

LogFlushTake == FlushTake /\ LogFrame

LogFlushWrite == FlushWrite /\ LogFrame

LogStop == Stop /\ LogFrame

NextLog ==
    \/ LogHandle
    \/ LogTimerFire
    \/ LogLoopTick
    \/ LogLoopDone
    \/ LogLoopWrite
    \/ LogFlushTake
    \/ LogFlushWrite
    \/ LogStop

SpecLog == Init /\ [][NextLog]_vars

\* ------------------------------------------------ access tokens on the wire
\* the base64url alphabet, a character being its 6-bit value
B64 == 0..63

\* base64.RawURLEncoding.EncodeToString: three bytes make four characters;
\* the unused low bits of the last character are zero
RECURSIVE B64Encode(_)
B64Encode(bs) ==
    IF bs = << >> THEN << >>
    ELSE IF Len(bs) = 1 THEN <<bs[1] \div 4, (bs[1] % 4) * 16>>
    ELSE IF Len(bs) = 2
    THEN <<bs[1] \div 4, (bs[1] % 4) * 16 + bs[2] \div 16, (bs[2] % 16) * 4>>
    ELSE <<bs[1] \div 4, (bs[1] % 4) * 16 + bs[2] \div 16,
           (bs[2] % 16) * 4 + bs[3] \div 64, bs[3] % 64>> \o B64Encode(SubSeq(bs, 4, Len(bs)))

\* base64.RawURLEncoding.DecodeString as the token parser calls it (the
\* encoding is not Strict()): a lone trailing character is an error, and the
\* unused low bits of the last character are ignored
RECURSIVE B64Decode(_)
B64Decode(cs) ==
    IF cs = << >> THEN [ok |-> TRUE, bytes |-> << >>]
    ELSE IF Len(cs) = 1 THEN [ok |-> FALSE, bytes |-> << >>]
    ELSE IF Len(cs) = 2 THEN [ok |-> TRUE, bytes |-> <<cs[1] * 4 + cs[2] \div 16>>]
    ELSE IF Len(cs) = 3
    THEN [ok |-> TRUE, bytes |-> <<cs[1] * 4 + cs[2] \div 16, (cs[2] % 16) * 16 + cs[3] \div 4>>]
    ELSE LET rest == B64Decode(SubSeq(cs, 5, Len(cs)))
         IN  [ok |-> rest.ok,
              bytes |-> <<cs[1] * 4 + cs[2] \div 16, (cs[2] % 16) * 16 + cs[3] \div 4,
                          (cs[3] % 4) * 64 + cs[4]>> \o rest.bytes]

\* cfg.JWTSecret, as bytes
JWTSecret == <<7, 7>>

\* HMAC-SHA256 of the signing input under key, as an injective keyed
\* function: the tag is the key followed by the input. Like the 32 bytes of
\* a real tag, its 5 bytes leave two unused bits in the last character of
\* the signature segment
HS256(key, signingInput) == key \o signingInput

\* the JSON payload of the claims, as bytes: the subject and the tenant
ClaimBytes(claims) == <<claims.sub, IF claims.app_id = "t1" THEN 1 ELSE 2>>

\* token.SignedString: payload segment and signature segment (the header
\* segment is the same for every token)
SignedString(claims, key) ==
    LET payload == B64Encode(ClaimBytes(claims))
    IN  [payload |-> payload, sig |-> B64Encode(HS256(key, payload))]

\* jwtware / jwt.Parse: the signature segment is decoded and compared with
\* the tag of the presented header.payload; the payload is decoded
ParseJWT(tok, key) ==
    LET sig == B64Decode(tok.sig)
        payload == B64Decode(tok.payload)
    IN  [valid |-> sig.ok /\ payload.ok /\ sig.bytes = HS256(key, tok.payload),
         claims |-> payload.bytes]

\* generateAccessToken signs a token for a user of a tenant
JwIssue ==
    /\ jw.stage = "idle"
    /\ \E appID \in Tenants, uid \in 1..MaxUsers :
         LET tok == SignedString(generateAccessToken(appID, [NoUser EXCEPT !.id = uid]), JWTSecret)
         IN  jw' = [NoJw EXCEPT !.stage = "issued", !.issued = tok, !.presented = tok]
    /\ UNCHANGED <<boot, cfg, bgVars, jwks, vt, dataVars, authVars, http>>

\* the client presents the token as issued
JwSend ==
    /\ jw.stage = "issued"
    /\ jw' = [jw EXCEPT !.stage = "sent"]
    /\ UNCHANGED <<boot, cfg, bgVars, jwks, vt, dataVars, authVars, http>>

\* the client presents the token with one character of its payload or
\* signature segment replaced
JwTamper ==
    /\ jw.stage = "issued"
    /\ \/ \E i \in 1..Len(jw.issued.payload) : \E c \in B64 \ {jw.issued.payload[i]} :
            jw' = [jw EXCEPT !.stage = "sent", !.presented.payload[i] = c]
       \/ \E i \in 1..Len(jw.issued.sig) : \E c \in B64 \ {jw.issued.sig[i]} :
            jw' = [jw EXCEPT !.stage = "sent", !.presented.sig[i] = c]
    /\ UNCHANGED <<boot, cfg, bgVars, jwks, vt, dataVars, authVars, http>>

\* JWTProtected: jwtware verifies the presented token under the shared
\* secret and stores its claims in the "user" local, or answers 401
JwVerify ==
    /\ jw.stage = "sent"
    /\ LET r == ParseJWT(jw.presented, JWTSecret)
       IN  jw' = [jw EXCEPT !.stage = "verified", !.accepted = r.valid,
                            !.claims = IF r.valid THEN r.claims ELSE << >>]
    /\ UNCHANGED <<boot, cfg, bgVars, jwks, vt, dataVars, authVars, http>>

\* the request is over
JwDone ==
    /\ jw.stage = "verified"
    /\ jw' = NoJw
    /\ UNCHANGED <<boot, cfg, bgVars, jwks, vt, dataVars, authVars, http>>

NextJWT ==
    \/ JwIssue
    \/ JwSend
    \/ JwTamper
    \/ JwVerify
    \/ JwDone

SpecJWT == Init /\ [][NextJWT]_vars

\* ------------------------------------------------------- middleware chain
\* the routes of routes.Setup, as path segments
RouteHealth == <<"api", "health">>
RouteLegal == <<"api", "legal", "privacy">>
RouteWebhook == <<"api", "webhooks", "revenuecat", "t1">>
RouteLogin == <<"api", "auth", "login">>
RouteReports == <<"api", "reports">>
RouteAdmin == <<"api", "admin", "moderation", "reports">>
Routes == {RouteHealth, RouteLegal, RouteWebhook, RouteLogin, RouteReports, RouteAdmin}

RouteBlocks == <<"api", "blocks">>

\* the routes registered with middleware.JWTProtected
JWTRoutes == {RouteReports, RouteBlocks, RouteAdmin}

\* the routes of the admin group: JWTProtected, then AdminRequired
AdminRoutes == {RouteAdmin}

\* tenantSkipPaths: "/api/health", "/api/legal/", "/api/webhooks/" (slash:
\* the prefix ends with a slash, so a further segment must follow)
tenantSkipPaths == {[pre |-> <<"api", "health">>, slash |-> FALSE],
                    [pre |-> <<"api", "legal">>, slash |-> TRUE],
                    [pre |-> <<"api", "webhooks">>, slash |-> TRUE]}

\* strings.HasPrefix(path, skip), on path segments
HasPrefix(path, skip) ==
    /\ Len(path) >= Len(skip.pre)
    /\ SubSeq(path, 1, Len(skip.pre)) = skip.pre
    /\ skip.slash => Len(path) > Len(skip.pre)

\* a path TenantMiddleware lets through without resolving a tenant
Exempt(path) == \E skip \in tenantSkipPaths : HasPrefix(path, skip)

\* a registry that knows every identifier
RegistryExistsAny(appID) == TRUE

\* Registry.Exists
RegistryExists(appID) == appID \in Tenants

\* what a client may send: no bearer token, a token signed for a tenant, a
\* forged one, an expired one; a tenant, an unknown tenant or nothing in the
\* header and in the query parameter
Bearers ==
    {NoBearer} \cup {[sub |-> 1, email |-> "a@x.com", app |-> t, exp |-> 1, sigOK |-> TRUE] : t \in Tenants}
               \cup {[sub |-> 1, email |-> "a@x.com", app |-> "t1", exp |-> 1, sigOK |-> FALSE],
                     [sub |-> 1, email |-> "a@x.com", app |-> "t1", exp |-> 0, sigOK |-> TRUE],
                     [sub |-> 2, email |-> "b@x.com", app |-> "t1", exp |-> 1, sigOK |-> TRUE]}

Selectors == Tenants \cup {"", "zz"}

\* the X-Admin-Token header: absent, the configured token, another value
AdminTokens == {"", "adm", "bad"}

\* the admin settings a deployment may load: ADMIN_TOKEN set or not, the
\* allow-lists ADMIN_EMAILS and ADMIN_USER_IDS empty or not
AdminConfigs ==
    {[AdminToken |-> t, AdminEmails |-> e, AdminUserIDs |-> i] :
       t \in {"", "adm"}, e \in {{}, {"b@x.com"}}, i \in {{}, {2}}}

\* the users table of a deployment: empty, or user 1 of t1 with the role
\* "admin" or "user" (the role column is written outside the program), live
\* or soft-deleted
SeededUsers ==
    {{}} \cup {{[NoUser EXCEPT !.id = 1, !.appID = "t1", !.email = "a@x.com",
                               !.password = BcryptHash(PwGood), !.authProvider = "email",
                               !.role = r, !.deleted = d]} :
                r \in {"admin", "user"}, d \in BOOLEAN}

\* TenantMiddleware: skip paths, then the JWT claim of the "user" local, the
\* X-App-ID header, the app_id query parameter; next = FALSE is the 400 answer
TenantMiddleware(path, localUser, hdr, qry) ==
    IF Exempt(path) THEN [next |-> TRUE, app |-> "", src |-> ""]
    ELSE IF localUser # NoBearer /\ localUser.app # ""
    THEN [next |-> TRUE, app |-> localUser.app, src |-> "jwt"]
    ELSE IF hdr # ""
    THEN IF ~RegistryExists(hdr) THEN [next |-> FALSE, app |-> "", src |-> ""]
         ELSE [next |-> TRUE, app |-> hdr, src |-> "header"]
    ELSE IF qry # ""
    THEN IF ~RegistryExists(qry) THEN [next |-> FALSE, app |-> "", src |-> ""]
         ELSE [next |-> TRUE, app |-> qry, src |-> "query"]
    ELSE [next |-> FALSE, app |-> "", src |-> ""]

\* jwtware: the signature verifies under the shared secret and the token
\* has not expired
JWTValid(tok, t) == tok # NoBearer /\ tok.sigOK /\ t < tok.exp

\* a request arrives
Arrive ==
    /\ http.stage = "idle"
    /\ \E route \in Routes, bearer \in Bearers, hdr \in Selectors, qry \in Selectors,
          adminTok \in AdminTokens :
         http' = [NoHttp EXCEPT !.stage = "tenant", !.route = route, !.bearer = bearer,
                                !.hdr = hdr, !.qry = qry, !.adminTok = adminTok]
    /\ UNCHANGED <<sideVars, dataVars, authVars>>

\* app.Use(middleware.TenantMiddleware(registry)): the global middleware runs
\* before the route's own middleware
TenantStep ==
    /\ http.stage = "tenant"
    /\ LET r == TenantMiddleware(http.route, http.user, http.hdr, http.qry)
       IN  IF r.next
           THEN http' = [http EXCEPT !.app = r.app, !.src = r.src,
                                     !.stage = IF http.route \in JWTRoutes THEN "jwt" ELSE "handler"]
           ELSE http' = [http EXCEPT !.status = 400, !.stage = "done"]
    /\ UNCHANGED <<sideVars, dataVars, authVars>>

\* middleware.JWTProtected on the route: stores the verified token in the
\* "user" local or answers 401
JWTProtected ==
    /\ http.stage = "jwt"
    /\ IF JWTValid(http.bearer, now)
       THEN http' = [http EXCEPT !.user = http.bearer,
                                 !.stage = IF http.route \in AdminRoutes THEN "admin" ELSE "handler"]
       ELSE http' = [http EXCEPT !.status = 401, !.stage = "done"]
    /\ UNCHANGED <<sideVars, dataVars, authVars>>

\* an authorizer that admits every user it finds, whatever the role
AdminRequiredAnyRole(config, adminTok, localUser, appID, rows) ==
    IF config.AdminToken # "" /\ adminTok = config.AdminToken THEN 0
    ELSE IF localUser = NoBearer THEN 401
    ELSE IF localUser.email \in config.AdminEmails \/ localUser.sub \in config.AdminUserIDs THEN 0
    ELSE IF localUser.sub # 0 /\ \E u \in Live(ForTenant(rows, appID)) : u.id = localUser.sub
    THEN 0
    ELSE 403

\* AdminRequired: the static admin token, then the "user" local, the
\* configured allow-lists and the role of the user row of the bound tenant;
\* 0 is c.Next(), otherwise the status of the rejection
AdminRequired(config, adminTok, localUser, appID, rows) ==
    IF config.AdminToken # "" /\ adminTok = config.AdminToken THEN 0
    ELSE IF localUser = NoBearer THEN 401
    ELSE IF localUser.email \in config.AdminEmails \/ localUser.sub \in config.AdminUserIDs THEN 0
    ELSE IF localUser.sub # 0 /\ \E u \in Live(ForTenant(rows, appID)) :
                                   u.id = localUser.sub /\ u.role = "admin"
    THEN 0
    ELSE 403

\* middleware.AdminRequired on the admin group, after JWTProtected
AdminStep ==
    /\ http.stage = "admin"
    /\ LET r == AdminRequired(cfg, http.adminTok, http.user, http.app, users)
       IN  http' = IF r = 0 THEN [http EXCEPT !.stage = "handler"]
                   ELSE [http EXCEPT !.status = r, !.stage = "done"]
    /\ UNCHANGED <<sideVars, dataVars, authVars>>

\* the route's handler runs, with tenant.GetAppID(c) = the "app_id" local
Handler ==
    /\ http.stage = "handler"
    /\ http' = [http EXCEPT !.ran = TRUE, !.status = 200, !.stage = "done"]
    /\ UNCHANGED <<sideVars, dataVars, authVars>>

\* the response is written
Respond ==
    /\ http.stage = "done"
    /\ http' = NoHttp
    /\ UNCHANGED <<sideVars, dataVars, authVars>>

NextReq ==
    \/ Arrive
    \/ TenantStep
    \/ JWTProtected
    \/ AdminStep
    \/ Handler
    \/ Respond

SpecReq == Init /\ [][NextReq]_vars

\* a deployment with some admin settings and some users table
InitAdmin ==
    /\ cfg \in AdminConfigs
    /\ InitBg
    /\ users \in SeededUsers
    /\ nextUser = Cardinality(users) + 1
    /\ tokens = {}
    /\ now = 0
    /\ nextRaw = 1
    /\ pc = [p \in Procs |-> "idle"]
    /\ call = [p \in Procs |-> NoCall]
    /\ usedOK = {}
    /\ http = NoHttp
    /\ boot = Serving
    /\ jwks = NoKeys
    /\ vt = NoVt
    /\ jw = NoJw
    /\ subscriptions = {}
    /\ reports = {}
    /\ blocks = {}

SpecAdmin == InitAdmin /\ [][NextReq]_vars

\* admin settings whose email allow-list names an address anyone may
\* register with
OpenConfigs ==
    {[AdminToken |-> t, AdminEmails |-> e, AdminUserIDs |-> {}] :
       t \in {"", "adm"}, e \in {{}, {"a@x.com"}}}

InitSelf ==
    /\ cfg \in OpenConfigs
    /\ InitBg
    /\ boot = Serving
    /\ jwks = NoKeys
    /\ vt = NoVt
    /\ jw = NoJw
    /\ subscriptions = {}
    /\ reports = {}
    /\ blocks = {}
    /\ users = {}
    /\ tokens = {}
    /\ now = 0
    /\ nextUser = 1
    /\ nextRaw = 1
    /\ pc = [p \in Procs |-> "idle"]
    /\ call = [p \in Procs |-> NoCall]
    /\ usedOK = {}
    /\ http = NoHttp

\* a registered user calls a route with the access token
\* generateAccessToken issued for its row and one of the given values of
\* X-Admin-Token
ArriveRegistered(route, adminToks) ==
    /\ http.stage = "idle"
    /\ \E u \in Live(users), hdr \in Selectors, qry \in Selectors, adminTok \in adminToks :
         /\ \E t \in tokens : t.userID = u.id
         /\ LET claims == generateAccessToken(u.appID, u)
                bearer == [sub |-> claims.sub, email |-> claims.email, app |-> claims.app_id,
                           exp |-> now + 1, sigOK |-> TRUE]
            IN  http' = [NoHttp EXCEPT !.stage = "tenant", !.route = route, !.bearer = bearer,
                                       !.hdr = hdr, !.qry = qry, !.adminTok = adminTok]
    /\ UNCHANGED <<sideVars, dataVars, authVars>>

\* self-registration through the public endpoint, then requests to the
\* admin group
NextSelf ==
    \/ RegisterBegin(1, {PwGood})
    \/ RegisterCreate(1)
    \/ GenerateTokenPair(1)
    \/ Return(1)
    \/ ArriveRegistered(RouteAdmin, AdminTokens)
    \/ TenantStep
    \/ JWTProtected
    \/ AdminStep
    \/ Handler
    \/ Respond

SpecSelf == InitSelf /\ [][NextSelf]_vars

\* ModerationHandler.CreateReport and BlockUser behind the chain: the row
\* is written under tenant.GetAppID(c) for the user tenant.GetUserID(c)
\* reads from the token's sub claim
ModerationHandler ==
    /\ http.stage = "handler"
    /\ LET appID == http.app
           userID == http.user.sub
       IN  IF http.route = RouteReports
           THEN /\ reports' = reports \cup {[id |-> FreshId(reports), appID |-> appID,
                                             reporterID |-> userID]}
                /\ http' = [http EXCEPT !.ran = TRUE, !.status = 201, !.stage = "done"]
                /\ UNCHANGED blocks
           ELSE \E blockedID \in 1..MaxUsers :
                  IF \/ userID = blockedID
                     \/ \E b \in ForTenant(blocks, appID) :
                          b.blockerID = userID /\ b.blockedID = blockedID
                  THEN /\ http' = [http EXCEPT !.ran = TRUE, !.status = 409, !.stage = "done"]
                       /\ UNCHANGED <<reports, blocks>>
                  ELSE /\ blocks' = blocks \cup {[id |-> FreshId(blocks), appID |-> appID,
                                                  blockerID |-> userID, blockedID |-> blockedID]}
                       /\ http' = [http EXCEPT !.ran = TRUE, !.status = 200, !.stage = "done"]
                       /\ UNCHANGED reports
    /\ UNCHANGED <<sideVars, subscriptions, authVars>>

\* POST /api/reports and POST /api/blocks, while the tables have room
ArriveReports == RowBudget /\ ArriveRegistered(RouteReports, {""})

ArriveBlocks == RowBudget /\ ArriveRegistered(RouteBlocks, {""})

\* registered users file reports and blocks
NextWrite ==
    \/ RegisterBegin(1, {PwGood})
    \/ RegisterCreate(1)
    \/ GenerateTokenPair(1)
    \/ Return(1)
    \/ ArriveReports
    \/ ArriveBlocks
    \/ TenantStep
    \/ JWTProtected
    \/ ModerationHandler
    \/ Respond

SpecWrite == Init /\ [][NextWrite]_vars

\* ------------------------------------------------------ failing statements
\* Refresh when its UPDATE fails (connection lost, statement timeout): the
\* result of s.db.Model(&stored).Update("revoked", true) is not inspected on
\* either branch, so the call goes on as if the row had been written
RefreshRevokeFails(p) ==
    /\ pc[p] = "rf_revoke"
    /\ LET c == call[p]
       IN  IF Expired(now, c.stored)
           THEN /\ call' = [call EXCEPT ![p] = Fail(c, 401, "invalid or expired refresh token")]
                /\ pc' = [pc EXCEPT ![p] = "done"]
           ELSE /\ call' = call
                /\ pc' = [pc EXCEPT ![p] = "rf_load"]
    /\ UNCHANGED <<sideVars, dataVars, http, users, tokens, now, nextUser, nextRaw, usedOK>>

\* register and refresh calls over a database whose statements may fail
NextFault ==
    \/ RegisterBegin(1, {PwGood})
    \/ RegisterCreate(1)
    \/ GenerateTokenPair(1)
    \/ RefreshBegin(1)
    \/ RefreshRevoke(1)
    \/ RefreshRevokeFails(1)
    \/ RefreshLoad(1)
    \/ Return(1)
    \/ Tick

SpecFault == Init /\ [][NextFault]_vars

\* ------------------------------------------------- deletion under requests
\* DeleteAccount is behind JWTProtected: its caller holds an access token of
\* the user, so a session pair has been issued for that user
DeleteSignedIn(p) ==
    /\ DeleteBegin(p)
    /\ \E t \in tokens : t.userID = call'[p].uid

\* the register, login and refresh calls of one goroutine interleaved with
\* the DeleteAccount calls of another
NextRace ==
    \/ RegisterBegin(1, {PwGood})
    \/ RegisterCreate(1)
    \/ LoginBegin(1)
    \/ RefreshBegin(1)
    \/ RefreshRevoke(1)
    \/ RefreshLoad(1)
    \/ GenerateTokenPair(1)
    \/ Return(1)
    \/ DeleteSignedIn(2)
    \/ DeleteTx(2)
    \/ Return(2)

SpecRace == Init /\ [][NextRace]_vars

\* ------------------------------------------------------------------ startup
\* what the environment and the apps file may hold
AppIDs == {"", "t1", "t2"}

BundleIDs == {"com.app.one", "com.app.two"}

AppsFiles ==
    {AppsFile(FALSE, FALSE, << >>), AppsFile(TRUE, FALSE, << >>)} \cup
    {AppsFile(TRUE, TRUE, apps) :
       apps \in UNION {[1..n -> {AppConfig(i, b) : i \in AppIDs, b \in BundleIDs}] : n \in 0..MaxApps}}

InitBoot ==
    /\ \E secret \in {"", "secret"}, pw \in {"", "pw"}, file \in AppsFiles :
         boot = [stage |-> "secret", JWTSecret |-> secret, DBPassword |-> pw, file |-> file,
                 registry |-> NewRegistry, err |-> "", listening |-> FALSE, exit |-> 0]
    /\ cfg = DefaultCfg
    /\ InitBg
    /\ jwks = NoKeys
    /\ vt = NoVt
    /\ jw = NoJw
    /\ subscriptions = {}
    /\ reports = {}
    /\ blocks = {}
    /\ users = {}
    /\ tokens = {}
    /\ now = 0
    /\ nextUser = 1
    /\ nextRaw = 1
    /\ pc = [p \in Procs |-> "idle"]
    /\ call = [p \in Procs |-> NoCall]
    /\ usedOK = {}
    /\ http = NoHttp

\* os.Exit(1)
Exit(b) == [b EXCEPT !.stage = "exited", !.exit = 1]

\* main: cfg.JWTSecret == ""
BootSecret ==
    /\ boot.stage = "secret"
    /\ boot' = IF boot.JWTSecret = "" THEN Exit(boot) ELSE [boot EXCEPT !.stage = "password"]
    /\ UNCHANGED <<cfg, bgVars, jwks, vt, jw, dataVars, authVars, http>>

\* main: cfg.DBPassword == ""
BootPassword ==
    /\ boot.stage = "password"
    /\ boot' = IF boot.DBPassword = "" THEN Exit(boot) ELSE [boot EXCEPT !.stage = "registry"]
    /\ UNCHANGED <<cfg, bgVars, jwks, vt, jw, dataVars, authVars, http>>

\* main: tenant.LoadFromFile(cfg.AppsConfigPath)
BootRegistry ==
    /\ boot.stage = "registry"
    /\ LET r == LoadFromFile(boot.file)
       IN  boot' = IF r.err # "" THEN Exit([boot EXCEPT !.err = r.err])
                   ELSE [boot EXCEPT !.registry = r.registry, !.stage = "database"]
    /\ UNCHANGED <<cfg, bgVars, jwks, vt, jw, dataVars, authVars, http>>

\* main: database.Connect, the migrations; each may fail
BootDatabase ==
    /\ boot.stage = "database"
    /\ \E ok \in BOOLEAN :
         boot' = IF ok THEN [boot EXCEPT !.stage = "listen"] ELSE Exit(boot)
    /\ UNCHANGED <<cfg, bgVars, jwks, vt, jw, dataVars, authVars, http>>

\* main: app.Listen in its goroutine; it may fail to bind
BootListen ==
    /\ boot.stage = "listen"
    /\ \E ok \in BOOLEAN :
         boot' = IF ok THEN [boot EXCEPT !.stage = "serving", !.listening = TRUE]
                 ELSE Exit(boot)
    /\ UNCHANGED <<cfg, bgVars, jwks, vt, jw, dataVars, authVars, http>>

NextBoot ==
    \/ BootSecret
    \/ BootPassword
    \/ BootRegistry
    \/ BootDatabase
    \/ BootListen

SpecBoot == InitBoot /\ [][NextBoot]_vars

\* -------------------------------------------------------------- properties
\* a request of operation op has been answered
Answered(p, op) == pc[p] = "done" /\ call[p].op = op

\* the request carried a session pair back
Session(p) == pc[p] = "done" /\ call[p].newRaw # 0

\* C1 (SpecIsolation): tenant isolation. Every user row a scoped lookup
\* returns (login, register's existence check, refresh's and deleteAccount's
\* user load, appleSignIn's lookup) belongs to the tenant of the request; a
\* session is only issued for a user of that tenant; a register call is
\* refused only because of a row of its own tenant, so the same email
\* registers in two tenants as two distinct users.
TenantIsolation ==
    /\ \A p \in Procs : call[p].foundApp \in {"", call[p].appID}
    /\ \A p \in Procs : Session(p) =>
         \E u \in users : u.id = call[p].sub /\ u.appID = call[p].appID
    /\ \A p \in Procs :
         (Answered(p, "register") /\ call[p].status # 201
            /\ call[p].email # "" /\ GoLen(call[p].pw) >= MinPasswordLen)
         => \E u \in users : u.appID = call[p].appID /\ u.email = call[p].email
    /\ \A u, v \in users : u.id = v.id => u = v

\* C1 witness: both tenants hold a live user with the same email, and a
\* login under t2 has just returned t2's user.
TenantIsolationWitness ==
    /\ \E u, v \in users : /\ u.appID = "t1" /\ v.appID = "t2" /\ u.email = v.email
                           /\ u.id # v.id /\ ~u.deleted /\ ~v.deleted
    /\ Answered(1, "login") /\ call[1].status = 200 /\ call[1].appID = "t2"
    /\ call[1].foundApp = "t2"

\* C2 (Spec): a refresh token that a Refresh call has exchanged successfully
\* fails with InvalidToken (401) on every later Refresh call.
RefreshSingleUse ==
    \A p \in Procs :
      (Answered(p, "refresh") /\ call[p].pre.used)
      => /\ call[p].status = 401
         /\ call[p].err = "invalid or expired refresh token"
         /\ call[p].newRaw = 0

\* C2 witness: a Refresh call presenting an already exchanged token has been
\* answered.
RefreshSingleUseWitness ==
    Answered(1, "refresh") /\ call[1].pre.used /\ call[1].status = 401

\* C3 (SpecConc): of two Refresh calls presenting the same raw token at most
\* one returns a session pair.
AtMostOneRefreshSucceeds ==
    \A p, q \in Procs :
      (p # q /\ Answered(p, "refresh") /\ Answered(q, "refresh")
         /\ call[p].raw = call[q].raw /\ call[p].status = 200)
      => call[q].status # 200

\* C4 (Spec): round trip. A Refresh call under the tenant of an issued,
\* unrevoked, unexpired token whose owner exists succeeds; a Refresh succeeds
\* only for such a token and only the first time; the access token it returns
\* carries the owner as subject and the tenant, the new refresh token differs
\* from the presented one and its row is unrevoked, unexpired and owned by
\* the same user and tenant.
RefreshRoundTrip ==
    \A p \in Procs : Answered(p, "refresh") =>
      LET c == call[p] IN
      /\ c.pre.valid => c.status = 200
      /\ c.status = 200 =>
           /\ c.pre.valid /\ ~c.pre.used
           /\ c.newRaw # c.raw
           /\ c.tokApp = c.appID
           /\ \E old \in tokens : /\ old.hash = hashToken(c.raw) /\ old.revoked
                                  /\ old.userID = c.sub /\ old.appID = c.tokApp
           /\ \E new \in tokens : /\ new.hash = hashToken(c.newRaw) /\ ~new.revoked
                                  /\ new.userID = c.sub /\ new.appID = c.tokApp
                                  /\ now <= new.expiresAt

\* C4 witness: two tokens in a row have been exchanged, the second being
\* the one the first exchange returned.
RefreshRoundTripWitness ==
    /\ Answered(1, "refresh") /\ call[1].status = 200
    /\ call[1].raw \in usedOK /\ Cardinality(usedOK) = 2

\* C5 (Spec): revoked is terminal. No step turns the revoked flag of a row
\* from true to false, and a Refresh call presenting a token whose row is
\* revoked or past its expiry returns no session pair.
RevokedTerminalInv ==
    \A p \in Procs :
      (Answered(p, "refresh") /\ (call[p].pre.revoked \/ call[p].pre.expired))
      => call[p].status # 200 /\ call[p].newRaw = 0

RevokedTerminalAct ==
    \A t \in tokens : t.revoked => \A t2 \in tokens' : t2.hash = t.hash => t2.revoked

RevokedTerminal == []RevokedTerminalInv /\ [][RevokedTerminalAct]_vars

\* C5 witness: a Refresh call presenting an expired, not yet revoked token
\* has been refused.
RevokedTerminalWitness ==
    /\ Answered(1, "refresh") /\ call[1].pre.expired /\ ~call[1].pre.revoked
    /\ call[1].status = 401

\* C6 (SpecReq): a handler of a non-exempt path that runs for a request
\* carrying a valid access token runs with the token's tenant bound.
TokenTenantWins ==
    (http.ran /\ ~Exempt(http.route) /\ JWTValid(http.bearer, now))
    => http.app = http.bearer.app

\* C7 (SpecReq): never unscoped. A handler of a non-exempt path runs with a
\* non-empty tenant bound; a tenant taken from the header or the query
\* parameter is in the registry; a request to a non-exempt path for which
\* neither a valid token, the header nor the query parameter names a tenant
\* is answered 400 and no handler runs.
NeverUnscoped ==
    /\ (http.ran /\ ~Exempt(http.route)) =>
         /\ http.app # ""
         /\ http.src \in {"header", "query"} => http.app \in Tenants
         /\ http.src = "header" => http.app = http.hdr
         /\ http.src = "query" => http.app = http.qry
    /\ (http.stage \in {"jwt", "admin", "handler", "done"} /\ ~Exempt(http.route)
          /\ ~JWTValid(http.bearer, now) /\ http.hdr \notin Tenants /\ http.qry \notin Tenants)
       => http.stage = "done" /\ http.status = 400 /\ ~http.ran

\* C7 witness: the handler of a protected route has run with the tenant
\* taken from the query parameter.
NeverUnscopedWitness ==
    http.ran /\ http.route = RouteReports /\ http.src = "query" /\ http.app = "t2"

\* C8 (Spec): a failed login answers 401 with the one message, whether the
\* email is unknown or the password wrong, issues no token and changes no
\* stored state.
LoginUniformInv ==
    \A p \in Procs :
      (Answered(p, "login") /\ call[p].status # 200)
      => /\ call[p].status = 401
         /\ call[p].err = "invalid email or password"
         /\ call[p].newRaw = 0

LoginUniformAct ==
    \A p \in Procs :
      (pc[p] = "idle" /\ pc'[p] = "done" /\ call'[p].op = "login")
      => UNCHANGED <<users, tokens, nextUser, nextRaw, usedOK>>

LoginUniform == []LoginUniformInv /\ [][LoginUniformAct]_vars

\* C8 witness: a login with a registered email and a wrong password has
\* been refused.
LoginUniformWitness ==
    Answered(1, "login") /\ call[1].status = 401 /\ call[1].foundApp = call[1].appID

RegisterAgainInv ==
    \A p \in Procs : Answered(p, "register") =>
      LET c == call[p] IN
      /\ c.had # "none" =>
           /\ c.newRaw = 0
           /\ c.status = IF GoLen(c.pw) >= MinPasswordLen /\ c.had = "live" THEN 409 ELSE 400
      /\ c.status = 409 => c.had = "live" /\ c.err = "email already registered"

RegisterAgainAct ==
    \A p \in Procs :
      (call'[p].op = "register" /\ call'[p].had # "none")
      => UNCHANGED <<users, tokens, nextUser, nextRaw>>

RegisterRejectsShort ==
    \A p \in Procs :
      (call[p].op = "register" /\ (Len(call[p].pw) < MinPasswordLen \/ call[p].email = ""))
      => pc[p] = "done" /\ call[p].status = 400 /\ call[p].newRaw = 0

\* C11 (SpecIsolation): an appleSignIn call whose assertion's audience is
\* not exactly the audience configured for the tenant is answered 401, finds
\* and creates no user and issues no tokens, whatever else the assertion
\* carries (valid signature, issuer and expiry included).
AudienceMismatchInv ==
    \A p \in Procs :
      (call[p].op = "apple" /\ call[p].aud # GetBundleID(call[p].appID))
      => /\ pc[p] = "done"
         /\ call[p].status = 401
         /\ call[p].newRaw = 0
         /\ call[p].foundApp = ""

AudienceMismatchAct ==
    \A p \in Procs :
      (call'[p].op = "apple" /\ call'[p].aud # GetBundleID(call'[p].appID))
      => UNCHANGED <<users, tokens, nextUser, nextRaw>>

AudienceMismatchFails == []AudienceMismatchInv /\ [][AudienceMismatchAct]_vars

\* C11 witness: an assertion signed by the provider for the audience of t2,
\* unexpired, has been refused under t1.
AudienceMismatchWitness ==
    /\ Answered(1, "apple") /\ call[1].appID = "t1" /\ call[1].aud = "com.app.two"
    /\ call[1].status = 401
    /\ call[1].err = "failed to verify Apple identity token: invalid audience"

\* the steps of VerifyToken in the order of the code
VerifySteps == <<"split", "header", "key", "decode", "validate", "signature">>

\* the step named step has run in the current VerifyToken call
Ran(step) == \E i \in 1..Len(vt.steps) : vt.steps[i] = step

\* C12 (SpecVerify): VerifyToken runs its steps in the fixed order split,
\* header/algorithm, key resolution, payload decode, issuer/audience/expiry,
\* signature. The signature is checked only after issuer, audience and
\* expiry have passed; an algorithm other than RS256 is rejected before any
\* key is looked up or fetched; "ok" is returned only if every step ran and
\* passed.
VerifyOrderInv ==
    /\ vt.steps = SubSeq(VerifySteps, 1, Len(vt.steps))
    /\ Ran("signature") =>
         /\ vt.a.iss = AppleIssuer /\ vt.a.aud = vt.bundleID /\ now <= vt.a.exp
         /\ vt.key.kid = vt.a.kid /\ vt.a.payloadOK
    /\ (vt.stage # "idle" /\ vt.a.alg # "RS256") =>
         ~Ran("key") /\ vt.key = NoKey /\ vt.fetch = "none" /\ ~vt.hit
    /\ vt.result = "ok" =>
         /\ vt.stage = "done" /\ vt.steps = VerifySteps
         /\ vt.a.parts = 3 /\ vt.a.alg = "RS256" /\ vt.key.kid = vt.a.kid /\ vt.a.payloadOK
         /\ vt.a.iss = AppleIssuer /\ vt.a.aud = vt.bundleID /\ now <= vt.a.exp /\ vt.a.sigOK
    /\ (vt.stage = "done" /\ vt.result # "failed to get public key") =>
         vt.result = VerifyToken(vt.a, vt.bundleID, now)

VerifyOrderAct == (vt'.stage # "idle" /\ vt'.a.alg # "RS256") => jwks' = jwks

VerifyOrder == []VerifyOrderInv /\ [][VerifyOrderAct]_vars

\* C12 witness: an expired assertion has been refused as expired after a
\* key fetch, the signature step not run.
VerifyOrderWitness ==
    /\ vt.stage = "done" /\ vt.result = "token expired" /\ vt.fetch = "ok"
    /\ vt.steps = <<"split", "header", "key", "decode", "validate">>
    /\ now > vt.a.exp

\* C18 (SpecVerify): GetPublicKey returns a key only from a key set whose
\* expiry has not passed: a cached key only while the cache is fresh, else
\* a key of the set it has just fetched. When the cache is stale or lacks
\* the key a fetch is attempted, and when the fetch fails an error is
\* returned, never the stale key.
KeyCacheTTL ==
    /\ vt.key # NoKey => now < vt.key.fetchedAt + JWKSTTL
    /\ vt.hit => vt.fetch = "none" /\ vt.key # NoKey
    /\ (vt.stage \in {"decode", "validate", "signature"} /\ ~vt.hit) => vt.fetch = "ok"
    /\ vt.fetch \in FetchFailures =>
         /\ vt.stage = "done" /\ vt.key = NoKey
         /\ vt.result = "failed to get public key"

\* C18 witness: the cache holds the key but has expired, the fetch failed,
\* and GetPublicKey returned the error.
KeyCacheTTLWitness ==
    /\ vt.fetch \in FetchFailures /\ vt.result = "failed to get public key"
    /\ \E k \in jwks.keys : k.kid = vt.a.kid
    /\ now >= jwks.expiresAt

\* C13 (SpecJWT): an access token whose payload or signature segment
\* differs in one character from the token generateAccessToken issued is
\* refused by JWTProtected.
TamperedTokenRefused ==
    (jw.stage = "verified" /\ jw.presented # jw.issued) => ~jw.accepted

\* the refresh-token rows of tenant appID that store the hash of raw
Matching(rows, appID, raw) == {t \in ForTenant(rows, appID) : t.hash = hashToken(raw)}

\* C14 (Spec): Logout always succeeds and is idempotent. For any raw token
\* (active, revoked, expired or unknown) it answers 200 and issues nothing;
\* afterwards the matching row of the tenant, if any, is revoked, every
\* other row is as before, and a logout that finds no unrevoked matching
\* row (a second logout among them) leaves the store as it is.
LogoutIdempotentInv ==
    \A p \in Procs : Answered(p, "logout") =>
      /\ call[p].status = 200 /\ call[p].err = ""
      /\ call[p].newRaw = 0
      /\ \A t \in Matching(tokens, call[p].appID, call[p].raw) : t.revoked
      /\ LogoutUpdate(tokens, call[p].appID, hashToken(call[p].raw)) = tokens

LogoutIdempotentAct ==
    \A p \in Procs :
      (pc[p] = "idle" /\ pc'[p] = "done" /\ call'[p].op = "logout") =>
        LET hit == Matching(tokens, call'[p].appID, call'[p].raw)
        IN  /\ UNCHANGED <<users, nextUser, nextRaw, usedOK>>
            /\ tokens \ hit \subseteq tokens'
            /\ Cardinality(tokens') = Cardinality(tokens)
            /\ (\A t \in hit : t.revoked) => tokens' = tokens

LogoutIdempotent == []LogoutIdempotentInv /\ [][LogoutIdempotentAct]_vars

\* C14 witness: a logout with a token whose row was already revoked has
\* been answered 200.
LogoutIdempotentWitness ==
    /\ Answered(1, "logout") /\ call[1].status = 200 /\ call[1].pre.revoked
    /\ \E t \in Matching(tokens, call[1].appID, call[1].raw) : t.revoked

\* the five tables DeleteAccount touches
Store == <<users, tokens, subscriptions, reports, blocks>>

\* C15 (SpecDelete): deleteAccount is all-or-nothing. A call that fails
\* (400 password missing, 401 wrong password, 404 no such user, 500
\* persistence failure) changes no user, refresh token, subscription, report
\* or block; a call that succeeds has soft-deleted the user and removed all
\* its refresh tokens, subscriptions, reports and blocks of the tenant, and
\* nothing else, in one step.
DeleteAllOrNothingInv ==
    \A p \in Procs : Answered(p, "delete") =>
      LET c == call[p] IN
      /\ c.status \in {200, 400, 401, 404, 500}
      /\ c.status = 200 =>
           /\ \E u \in users : u.id = c.uid /\ u.appID = c.appID /\ u.deleted
           /\ \A t \in tokens : ~(t.userID = c.uid /\ t.appID = c.appID)
           /\ \A r \in subscriptions : ~(r.userID = c.uid /\ r.appID = c.appID)
           /\ \A r \in reports : ~(r.reporterID = c.uid /\ r.appID = c.appID)
           /\ \A r \in blocks : ~((r.blockerID = c.uid \/ r.blockedID = c.uid) /\ r.appID = c.appID)

DeleteAllOrNothingAct ==
    \A p \in Procs :
      (call'[p].op = "delete" /\ pc'[p] # pc[p]) =>
        IF pc'[p] = "done" /\ call'[p].status = 200
        THEN LET c == call'[p] IN
             /\ {u \in users' : ~(u.id = c.uid)} = {u \in users : ~(u.id = c.uid)}
             /\ tokens' \subseteq tokens /\ subscriptions' \subseteq subscriptions
             /\ reports' \subseteq reports /\ blocks' \subseteq blocks
             /\ \A t \in tokens \ tokens' : t.userID = c.uid /\ t.appID = c.appID
             /\ \A r \in subscriptions \ subscriptions' : r.userID = c.uid /\ r.appID = c.appID
             /\ \A r \in reports \ reports' : r.reporterID = c.uid /\ r.appID = c.appID
             /\ \A r \in blocks \ blocks' :
                  (r.blockerID = c.uid \/ r.blockedID = c.uid) /\ r.appID = c.appID
        ELSE UNCHANGED Store

DeleteAllOrNothing == []DeleteAllOrNothingInv /\ [][DeleteAllOrNothingAct]_vars

\* C15 witness: a deleteAccount has succeeded for a user that had a refresh
\* token, a subscription, a report and a block in the tenant.
DeleteAllOrNothingWitness ==
    /\ Answered(1, "delete") /\ call[1].status = 200
    /\ call[1].gone.tokens >= 1 /\ call[1].gone.subscriptions >= 1
    /\ call[1].gone.reports >= 1 /\ call[1].gone.blocks >= 1

\* the request carries a verified principal
Principal == JWTValid(http.bearer, now)

\* the three admin checks, for the request in the chain
AdminTokenOK == cfg.AdminToken # "" /\ http.adminTok = cfg.AdminToken

AllowListed == http.bearer.email \in cfg.AdminEmails \/ http.bearer.sub \in cfg.AdminUserIDs

AdminRole ==
    \E u \in users : /\ u.id = http.bearer.sub /\ u.appID = http.app
                     /\ ~u.deleted /\ u.role = "admin"

\* C16 (SpecAdmin): the admin authorizer fails closed. The handler of an
\* admin route runs only for a verified principal for which the admin-token
\* check, the allow-list check or the persisted-role check holds. A request
\* without a verified principal, or for which all three checks fail, is
\* rejected and the handler never runs: with 401 when there is no verified
\* principal, with 403 when the three checks fail (and with 400 by the
\* tenant middleware when no tenant resolves).
AdminFailsClosed ==
    (http.stage # "idle" /\ http.route \in AdminRoutes) =>
      /\ http.ran => Principal /\ (AdminTokenOK \/ AllowListed \/ AdminRole)
      /\ (http.stage = "done" /\ (~Principal \/ ~(AdminTokenOK \/ AllowListed \/ AdminRole))) =>
           /\ ~http.ran
           /\ http.status = IF http.app = "" THEN 400 ELSE IF ~Principal THEN 401 ELSE 403

\* C16 witness: a principal that is not allow-listed, whose user row has
\* the role "user", without the admin token, has been answered 403.
AdminFailsClosedWitness ==
    /\ http.stage = "done" /\ http.route \in AdminRoutes /\ http.status = 403 /\ ~http.ran
    /\ Principal /\ ~AdminTokenOK /\ ~AllowListed
    /\ \E u \in users : u.id = http.bearer.sub /\ u.appID = http.app /\ u.role = "user"

\* C17 (SpecAdmin): a request to an admin route that presents the configured
\* static admin token (and names a registered tenant) is admitted, whether
\* or not it carries a valid access token.
AdminTokenSuffices ==
    (/\ http.stage = "done" /\ http.route \in AdminRoutes
     /\ AdminTokenOK /\ http.hdr \in Tenants)
    => http.ran

\* the live users of the call's tenant that have the verified subject or
\* the derived email
AppleMatches(c) ==
    {u \in users : /\ u.appID = c.appID /\ ~u.deleted
                   /\ (u.appleUserID = c.asub \/ u.email = c.email)}

\* the upsert of a verified appleSignIn call: reuse and backfill, or create
AppleUpsertAct ==
    (pc[1] = "apple_upsert" /\ pc'[1] # "apple_upsert") =>
      LET c == call[1]
      IN  /\ pc'[1] = "issue"
          /\ IF AppleMatches(c) # {}
             THEN /\ {u.id : u \in users'} = {u.id : u \in users}
                  /\ \E old \in AppleMatches(c) :
                       /\ call'[1].user.id = old.id
                       /\ \E u \in users' :
                            /\ u.id = old.id
                            /\ u.appleUserID = IF old.appleUserID = Nil THEN c.asub
                                               ELSE old.appleUserID
             ELSE \E n \in users' \ users :
                    /\ users' = users \cup {n}
                    /\ n.appID = c.appID /\ n.authProvider = "apple"
                    /\ n.appleUserID = c.asub /\ n.password = << >>
                    /\ call'[1].user = n

\* the session of an appleSignIn call: one new refresh token row, one pair
AppleSessionAct ==
    (pc[1] = "issue" /\ call[1].op = "apple" /\ pc'[1] # "issue") =>
      /\ Cardinality(tokens' \ tokens) = 1
      /\ pc'[1] = "done" /\ call'[1].status = 200
      /\ call'[1].newRaw # 0 /\ call'[1].sub = call[1].user.id

\* C19 (SpecIsolation): appleSignIn with verified claims (subject s, email e)
\* under tenant t: if a user of t has subject s or email e, no user is
\* created, the session is issued for that user and its subject is set to s
\* if it was missing; otherwise exactly one user is created in t with
\* provider apple, subject s and an empty password hash; in both cases
\* exactly one session pair is issued.
AppleSignInOutcome == [][AppleUpsertAct /\ AppleSessionAct]_vars

\* C20 (SpecIsolation): no two users of the same tenant share a third-party
\* subject identifier.
SubjectUnique ==
    \A u, v \in users :
      (/\ ~u.deleted /\ ~v.deleted /\ u.appID = v.appID
       /\ u.appleUserID # Nil /\ u.appleUserID = v.appleUserID) => u = v

\* a Refresh call has found an unrevoked row whose expiry has passed and
\* takes its next step
ExpiredRefreshStep ==
    /\ pc[1] = "rf_revoke" /\ pc'[1] # "rf_revoke"
    /\ ~call[1].stored.revoked /\ now > call[1].stored.expiresAt

ExpiredRefreshAct ==
    ExpiredRefreshStep =>
      /\ pc'[1] = "done" /\ call'[1].status = 401
      /\ call'[1].err = "invalid or expired refresh token" /\ call'[1].newRaw = 0
      /\ tokens' = {IF t.hash = call[1].stored.hash THEN [t EXCEPT !.revoked = TRUE] ELSE t :
                      t \in tokens}
      /\ \E t \in tokens' : t.hash = call[1].stored.hash /\ t.revoked
      /\ UNCHANGED <<users, nextRaw, nextUser>>

AuthOps == {"register", "login", "refresh", "apple"}

\* a call ends with a session pair exactly when it took the issuing step,
\* and that step adds one record for the raw token it returns
TokenCreatedAct ==
    /\ (pc[1] # "done" /\ pc'[1] = "done" /\ call'[1].op \in AuthOps
        /\ call'[1].status \in {200, 201}) => pc[1] = "issue"
    /\ (pc[1] = "issue" /\ pc'[1] # "issue") =>
         /\ pc'[1] = "done" /\ call'[1].status \in {200, 201} /\ call'[1].newRaw # 0
         /\ call[1].user # NoUser /\ call[1].user \in users
         /\ \E r \in tokens' \ tokens :
              /\ tokens' = tokens \cup {r}
              /\ ~r.revoked
              /\ r.userID = call[1].user.id /\ r.userID = call'[1].sub
              /\ r.appID = call[1].user.appID
              /\ r.hash = [sha256 |-> call'[1].newRaw]
              /\ \A t \in tokens : t.hash # r.hash

\* outside the issuing step a record only has its revoked flag set, or is
\* removed by the DeleteAccount transaction of its owner
TokenFrameAct ==
    ~(pc[1] = "issue" /\ pc'[1] # "issue") =>
      /\ \A t \in tokens' : \E o \in tokens :
           t = o \/ (~o.revoked /\ t = [o EXCEPT !.revoked = TRUE])
      /\ \A o \in tokens :
           \/ \E t \in tokens' : t.hash = o.hash
           \/ /\ pc[1] = "del_tx" /\ pc'[1] = "done" /\ call'[1].status = 200
              /\ o.userID = call[1].user.id /\ o.appID = call[1].appID
              /\ \E u \in users' : u.id = o.userID /\ u.deleted

\* C22 (SpecIsolation): every successful register, login, refresh and
\* appleSignIn call adds exactly one refresh-token record; the record is
\* unrevoked, owned by the authenticated user and that user's tenant, and
\* stores the hash of the raw token returned, never the raw token. Apart
\* from that, records change only by revoked being set to true and are
\* removed only by the account-deletion cascade.
TokenLifecycle == [][TokenCreatedAct /\ TokenFrameAct]_vars

\* C22 witness: the store holds a revoked record next to an unrevoked one
\* after a record has been removed by an account deletion.
TokenLifecycleWitness ==
    /\ \E t \in tokens : t.revoked
    /\ \E t \in tokens : ~t.revoked
    /\ \E u \in users : u.deleted /\ ~\E t \in tokens : t.userID = u.id

\* C23 (SpecBoot): the process never listens for requests when the signing
\* secret is empty or loading the tenant registry failed; in both cases it
\* has exited once main is past the check.
StartupGate ==
    /\ (boot.JWTSecret = "" \/ ~boot.file.readable \/ ~boot.file.parses) =>
         /\ ~boot.listening
         /\ boot.stage \notin {"database", "listen", "serving"}
    /\ (boot.JWTSecret = "" /\ boot.stage # "secret") =>
         boot.stage = "exited" /\ boot.exit = 1
    /\ boot.listening => boot.stage = "serving"

\* C23 witness: the process has exited on an apps file that does not parse,
\* with a secret and a database password set.
StartupGateWitness ==
    /\ boot.stage = "exited" /\ boot.JWTSecret # "" /\ boot.DBPassword # ""
    /\ boot.file.readable /\ ~boot.file.parses /\ ~boot.listening

\* C25 (SpecBoot): after a successful load every tenant of the registry has
\* a non-empty identifier, and every entry of the source is the tenant the
\* registry holds under its identifier (none is accepted under the empty
\* key, none is replaced).
RegistryFaithful ==
    (boot.stage \in {"database", "listen", "serving"}) =>
      /\ "" \notin DOMAIN boot.registry
      /\ \A i \in 1..Len(boot.file.apps) :
           /\ boot.file.apps[i].AppID \in DOMAIN boot.registry
           /\ boot.registry[boot.file.apps[i].AppID] = boot.file.apps[i]

\* the messages of the error taxonomy: InvalidInput, EmailTaken,
\* InvalidCredentials, InvalidToken, UserNotFound, VerificationError, and
\* the generic messages of a 5xx
GenericMessages == {"Internal server error", "Failed to delete account"}

TaxonomyMessages ==
    {"email required and password must be at least 8 characters", "Password is required",
     "email already registered", "invalid email or password",
     "Incorrect password. Please try again.", "invalid or expired refresh token",
     "User not found", "failed to verify Apple identity token"} \cup GenericMessages

\* C24 (SpecIsolation): no internal error string reaches the client: every
\* failed register, login, refresh, appleSignIn and deleteAccount call is
\* answered with a fixed message of the taxonomy, a 5xx with a generic one,
\* and a rejected third-party assertion without the reason of the rejection.
NoInternalError ==
    \A p \in Procs :
      (pc[p] = "done" /\ call[p].op \in AuthOps \cup {"delete"} /\ call[p].status >= 400) =>
        /\ call[p].err \in TaxonomyMessages
        /\ call[p].status >= 500 => call[p].err \in GenericMessages

\* C26 (SpecFault): in Refresh the lookup and the revocation of the
\* presented token come before any new token is created, and whenever a
\* Refresh call is about to issue, or has returned, a session pair, the
\* presented token's record is revoked in the store.
RefreshRevokesFirst ==
    \A p \in Procs :
      (/\ call[p].op = "refresh"
       /\ pc[p] = "issue" \/ (pc[p] = "done" /\ call[p].newRaw # 0)) =>
        \E t \in tokens : t.hash = hashToken(call[p].raw) /\ t.revoked

\* a Refresh or Logout call starts under a tenant other than the one the
\* presented token was issued in
CrossTenantStep ==
    /\ pc[1] = "idle" /\ pc'[1] # "idle"
    /\ call'[1].op \in {"refresh", "logout"}
    /\ \E t \in tokens : t.hash = [sha256 |-> call'[1].raw] /\ t.appID # call'[1].appID

CrossTenantAct ==
    CrossTenantStep =>
      /\ UNCHANGED <<tokens, users, usedOK, nextRaw>>
      /\ pc'[1] = "done" /\ call'[1].newRaw = 0
      /\ call'[1].op = "refresh" =>
           call'[1].status = 401 /\ call'[1].err = "invalid or expired refresh token"

\* C27 (Spec): a Refresh or Logout call made under tenant B with a raw token
\* issued in tenant A # B never changes the token's record, and such a
\* Refresh fails with InvalidToken; what the token can do under A is left
\* as it was.
TokenTenantPartition == [][CrossTenantAct]_vars

\* C27 witness: a Refresh call under another tenant than the token's has
\* been answered 401 and the token's record is still unrevoked and
\* unexpired.
TokenTenantPartitionWitness ==
    /\ Answered(1, "refresh") /\ call[1].status = 401
    /\ \E t \in tokens : /\ t.hash = hashToken(call[1].raw) /\ t.appID # call[1].appID
                         /\ ~t.revoked /\ now <= t.expiresAt

\* C28 (SpecConc): when two register calls with the same tenant, the same
\* email and valid passwords run concurrently, exactly one user is created,
\* one call succeeds and the other fails with EmailTaken (409). The two
\* calls are those of which the first found no user of (tenant, email) and
\* the second started before the first had returned: it found no user
\* either, or it found the user the first had just created.
ConcurrentRegister ==
    (/\ Answered(1, "register") /\ Answered(2, "register")
     /\ call[1].appID = call[2].appID /\ call[1].email = call[2].email
     /\ call[1].email # "" /\ \A p \in Procs : GoLen(call[p].pw) >= MinPasswordLen
     /\ \/ \A p \in Procs : call[p].had = "none"
        \/ \E p, q \in Procs : /\ call[p].had = "none" /\ call[p].status = 201
                                /\ call[q].had = "live") =>
      /\ {call[1].status, call[2].status} = {201, 409}
      /\ Cardinality({u \in users : u.appID = call[1].appID /\ u.email = call[1].email}) = 1

\* C29 (SpecRace): once deleteAccount has succeeded for a user, the store
\* holds no refresh-token record owned by that user, also when login or
\* refresh calls for the user run concurrently with the deletion.
NoTokenOfDeleted ==
    \A u \in users : u.deleted => ~\E t \in tokens : t.userID = u.id

\* C30 (SpecIsolation): every user whose authentication-provider tag is
\* apple has an empty password hash, so DeleteAccount skips the password
\* check only for accounts without a password.
ApplePasswordless ==
    \A u \in users : u.authProvider = "apple" => u.password = << >>

\* C31 (SpecIsolation): the existing user an appleSignIn call resolves to is
\* determined by the verified assertion alone: it carries the verified
\* subject, or its email is the verified email claim. An email supplied in
\* the request body never selects an existing account.
AppleUserFromClaims ==
    \A p \in Procs :
      (call[p].op = "apple" /\ pc[p] = "apple_upsert" /\ call[p].user # NoUser) =>
        \/ call[p].user.appleUserID = call[p].asub
        \/ call[p].vemail # "" /\ call[p].user.email = call[p].vemail

\* C32 (SpecSelf): a principal that registered itself through the public
\* endpoint is admitted to an admin route only if the request carries the
\* configured admin token, its identifier is in the admin-identifier list,
\* or its persisted role in the resolved tenant is admin.
SelfRegisteredNotAdmin ==
    (http.stage # "idle" /\ http.route \in AdminRoutes /\ http.ran) =>
      \/ AdminTokenOK
      \/ http.bearer.sub \in cfg.AdminUserIDs
      \/ AdminRole

\* C33 (SpecWrite): every report and block row written on behalf of a
\* principal is stored under the principal's own tenant: the row's tenant is
\* the tenant of the user its reporter / blocker identifier names.
RowsUnderOwnTenant ==
    /\ \A r \in reports : \A u \in users : u.id = r.reporterID => r.appID = u.appID
    /\ \A b \in blocks : \A u \in users : u.id = b.blockerID => b.appID = u.appID

\* C34 (Spec): after a successful deleteAccount of the user with (tenant t,
\* email e), a later register call with the same t and e and a valid
\* password succeeds and creates a new user.
RegisterAfterDelete ==
    \A p \in Procs :
      (/\ Answered(p, "register") /\ call[p].had = "deleted"
       /\ call[p].email # "" /\ GoLen(call[p].pw) >= MinPasswordLen) =>
        /\ call[p].status = 201 /\ call[p].newRaw # 0
        /\ \E u \in users : u.appID = call[p].appID /\ u.email = call[p].email /\ ~u.deleted

\* C35 (SpecVerify): VerifyToken rejects every assertion whose expiry claim
\* is not strictly later than the current time, an expiry equal to the
\* current second included: an assertion that is accepted at a time after
\* the epoch has an expiry greater than that time.
ExpiryStrictlyLater ==
    (vt.stage = "done" /\ vt.result = "ok" /\ now > 0) => vt.a.exp > now

\* C36 (SpecVerifyLive): a failed key-set fetch (request error or timeout,
\* non-200 status, undecodable body) leaves the cached key map and its
\* expiry unchanged and ends the calling VerifyToken with the public-key
\* error and no key; after it the call only returns (no second fetch), and
\* a call waiting for the fetch never waits forever.
FetchFailureContained ==
    /\ [][(vt.stage = "fetch" /\ vt'.fetch \in FetchFailures) =>
            /\ jwks' = jwks
            /\ vt'.stage = "done" /\ vt'.key = NoKey
            /\ vt'.result = "failed to get public key"
            /\ vt'.steps = vt.steps]_vars
    /\ [][vt.fetch \in FetchFailures => vt' = NoVt]_vars
    /\ (vt.stage = "fetch") ~> (vt.stage # "fetch")

\* C36 witness: a fetch has failed (here on an undecodable body) while the
\* cache held expired keys, and the call has ended with the error.
FetchFailureWitness ==
    /\ vt.stage = "done" /\ vt.fetch = "failed to decode JWKS"
    /\ vt.result = "failed to get public key"
    /\ jwks.keys # {} /\ now >= jwks.expiresAt

\* C37 (SpecKeys): under any interleaving of concurrent GetPublicKey calls
\* and key-set fetches, every key returned belongs to a key set produced by
\* one complete successful fetch; a reader holding the read lock sees the
\* empty initial cache or the key map and expiry one complete fetch left
\* together, never a map that is being repopulated; and whenever no writer
\* holds the mutex the key map and its expiry are those of one fetch.
KeySetAtomic ==
    /\ \A p \in Procs :
         gp[p].key # NoBody => \E c \in completed : gp[p].key \in c.keys
    /\ \A p \in Procs :
         gp[p].pc \in {"read", "read2"} =>
           /\ ~shared.mu.writer
           /\ Observed \in completed \cup {[keys |-> {}, expiresAt |-> 0]}
    /\ ~shared.mu.writer => Observed \in completed \cup {[keys |-> {}, expiresAt |-> 0]}
    /\ shared.mu.writer => shared.mu.readers = 0

\* C37 witness: one call is repopulating the key map (the new map holds one
\* of the two keys of its body) while the other call waits for the read
\* lock, and an earlier complete fetch exists.
KeySetAtomicWitness ==
    \E p, q \in Procs :
      /\ p # q /\ gp[p].pc = "range" /\ gp[p].todo # {} /\ shared.keys # {}
      /\ gp[q].pc \in {"rlock", "rlock2"}
      /\ completed # {}

\* C38 (SpecLog): under any interleaving of Handle calls, timer-driven
\* flushes, threshold-driven flushes and Stop, every record Handle accepted
\* is in exactly one batch handed to the store: no record is in two batches
\* or twice in one, and once Stop has been called, the flush loop has ended
\* and no started flush is outstanding, no accepted record is left out of
\* the batches.
LogExactlyOnce ==
    /\ \A r \in 1..accepted :
         Cardinality({<<i, j>> \in (1..Len(batches)) \X (1..MaxRecords) :
                        j <= Len(batches[i]) /\ batches[i][j] = r}) <= 1
    /\ (done /\ loop.pc = "ended" /\ flushes.started = 0 /\ flushes.writing = {}) =>
         \A r \in 1..accepted :
           \E i \in 1..Len(batches) : \E j \in 1..Len(batches[i]) : batches[i][j] = r

====
